---------------------------- MODULE Spec2Model ----------------------------
(* Model of Data-Scraper/KESMatchData.py: the table walk and leg            *)
(* reconstruction (parse_table_matches), the per-year CSV round trip, the  *)
(* dimension builder and the fact assembler (main), and the competition    *)
(* name canonicalisation (norm_cup_name); of the fetching and the refresh *)
(* policy of the mains of KESMatchData.py, KESClubData.py and              *)
(* KESCountryData.py; and of the cache-first run of UEFAClubData.py.       *)
(*                                                                         *)
(* Text is modelled as a tuple of one-character strings, so that strip,    *)
(* upper/lower, substring tests, parsing and formatting are computed and   *)
(* not assumed.  "nbsp" stands for U+00A0 and "ndash" for U+2013.          *)
EXTENDS Integers, Sequences, FiniteSets, TLC

VARIABLES
    site,           \* the web site: year -> page (a sequence of tables of rows)
    files,          \* DIR_RAW: year -> rows of match_results_kes_{year}.csv
    years,          \* main's argument years
    overwrite,      \* main's argument overwrite
    pc,             \* position in main
    to_fetch,       \* years still to fetch in the loop of line 275
    y,              \* the loop variable of line 275
    tables,         \* tables of the current page not yet walked
    trs,            \* rows of the current table not yet walked
    current_cup,
    current_stage,
    year_rows,
    df,
    dim_cups,
    cup_map,
    dim_stages,
    stage_map_norm,
    dim_clubs,
    club_map,
    fact,
    err,            \* the exception that ended main, or NoError
    cup_trace,      \* norm_cup_name applied repeatedly: <<s, f(s), f(f(s)), ...>>
    responses,      \* the network: year -> outcomes of the successive requests
                    \* for the page (or the API data) of that year
    requests,       \* the requests sent so far: the year of each, in order
    raw_files,      \* UEFAClubData's DIR_RAW: [kind, year] -> content of the file
    details_rows,   \* UEFAClubData.main
    clubs_map,      \* UEFAClubData.main: the values, in insertion order
    logos_map,      \* UEFAClubData.main: the values, in insertion order
    fetch_all,      \* UEFAClubData.main (line 160)
    years_left,     \* UEFAClubData.main: years the loop of line 167 has yet to process
    outputs         \* UEFAClubData's OUTPUT_DIR: name -> rows of the parquet file

\* the variables of UEFAClubData.main alone
uefaVars == <<raw_files, details_rows, clubs_map, logos_map, fetch_all, years_left,
             outputs>>

vars == <<site, files, years, overwrite, pc, to_fetch, y, tables, trs,
          current_cup, current_stage, year_rows, df, dim_cups, cup_map,
          dim_stages, stage_map_norm, dim_clubs, club_map, fact, err, cup_trace,
          responses, requests, uefaVars>>

mainVars == <<site, files, years, overwrite, pc, to_fetch, y, tables, trs,
              current_cup, current_stage, year_rows, df, dim_cups, cup_map,
              dim_stages, stage_map_norm, dim_clubs, club_map, fact, err,
              responses, requests, uefaVars>>

-----------------------------------------------------------------------------
(* Bounds                                                                  *)

\* norm_cup_name is applied at most this many times in a row (SpecCup)
MaxCalls == 2

-----------------------------------------------------------------------------
(* Text: Python str operations on tuples of characters                     *)

\* the characters of the model in ascending code point order
CodeOrder ==
  <<" ","#","-",".","/","0","1","2","3","4","5","6","7","8","9","<",">",
    "A","B","C","D","E","F","G","H","I","J","K","L","M","N","O","P","Q","R",
    "S","T","U","V","W","X","Y","Z","a","b","c","d","e","f","g","h","i","j",
    "k","l","m","n","o","p","q","r","s","t","u","v","w","x","y","z",
    "nbsp","ndash">>

Ord(c) == CHOOSE i \in 1..Len(CodeOrder) : CodeOrder[i] = c

\* the upper case of each lower case letter, and the reverse
UpperOf ==
    [a |-> "A", b |-> "B", c |-> "C", d |-> "D", e |-> "E", f |-> "F",
      g |-> "G", h |-> "H", i |-> "I", j |-> "J", k |-> "K", l |-> "L",
      m |-> "M", n |-> "N", o |-> "O", p |-> "P", q |-> "Q", r |-> "R",
      s |-> "S", t |-> "T", u |-> "U", v |-> "V", w |-> "W", x |-> "X",
      y |-> "Y", z |-> "Z"]

LowerOf ==
    [A |-> "a", B |-> "b", C |-> "c", D |-> "d", E |-> "e", F |-> "f",
      G |-> "g", H |-> "h", I |-> "i", J |-> "j", K |-> "k", L |-> "l",
      M |-> "m", N |-> "n", O |-> "o", P |-> "p", Q |-> "q", R |-> "r",
      S |-> "s", T |-> "t", U |-> "u", V |-> "v", W |-> "w", X |-> "x",
      Y |-> "y", Z |-> "z"]

UpperChar(c) == IF c \in DOMAIN UpperOf THEN UpperOf[c] ELSE c

LowerChar(c) == IF c \in DOMAIN LowerOf THEN LowerOf[c] ELSE c

\* str.upper(), str.lower()
RECURSIVE StrUpper(_)
StrUpper(s) ==
    IF s = <<>> THEN s ELSE <<UpperChar(Head(s))>> \o StrUpper(Tail(s))

RECURSIVE StrLower(_)
StrLower(s) ==
    IF s = <<>> THEN s ELSE <<LowerChar(Head(s))>> \o StrLower(Tail(s))

\* the characters str.strip() and the regex class \s remove
Whitespace == {" ", "nbsp"}

RECURSIVE LStrip(_)
LStrip(s) ==
    IF s = <<>> THEN s
    ELSE IF Head(s) \in Whitespace THEN LStrip(Tail(s)) ELSE s

RECURSIVE RStrip(_)
RStrip(s) ==
    IF s = <<>> THEN s
    ELSE IF s[Len(s)] \in Whitespace THEN RStrip(SubSeq(s, 1, Len(s) - 1)) ELSE s

\* str.strip()
Strip(s) == RStrip(LStrip(s))

\* sub in s
Contains(s, sub) ==
    \E i \in 0..(Len(s) - Len(sub)) : SubSeq(s, i + 1, i + Len(sub)) = sub

\* s.startswith(p)
StartsWith(s, p) == Len(s) >= Len(p) /\ SubSeq(s, 1, Len(p)) = p

\* s < t for Python str (lexicographic by code point)
RECURSIVE StrLess(_, _)
StrLess(s, t) ==
    IF t = <<>> THEN FALSE
    ELSE IF s = <<>> THEN TRUE
    ELSE IF Head(s) = Head(t) THEN StrLess(Tail(s), Tail(t))
    ELSE Ord(Head(s)) < Ord(Head(t))

-----------------------------------------------------------------------------
(* norm_cup_name                                                           *)

EMPTY == <<>>
EUROPA_LEAGUE     == <<"E","U","R","O","P","A"," ","L","E","A","G","U","E">>
CHAMPIONS_LEAGUE  == <<"C","H","A","M","P","I","O","N","S"," ","L","E","A","G","U","E">>
CONFERENCE_LEAGUE == <<"C","O","N","F","E","R","E","N","C","E"," ","L","E","A","G","U","E">>
UEFA_CUP          == <<"U","E","F","A"," ","C","U","P">>
EUROPA            == <<"E","U","R","O","P","A">>
CHAMPION          == <<"C","H","A","M","P","I","O","N">>
CONFERENCE        == <<"C","O","N","F","E","R","E","N","C","E">>

\* mutant: the EUROPA rules are tried after the CHAMPION rule
norm_cup_name_order(s0) ==
    LET s  == Strip(s0)
        su == StrUpper(s)
    IN  IF s = EMPTY THEN EMPTY
        ELSE IF Contains(su, CHAMPION) THEN CHAMPIONS_LEAGUE
        ELSE IF Contains(su, UEFA_CUP) \/ su = UEFA_CUP THEN EUROPA_LEAGUE
        ELSE IF Contains(su, EUROPA_LEAGUE) \/ StartsWith(su, EUROPA) THEN EUROPA_LEAGUE
        ELSE IF Contains(su, CONFERENCE) THEN CONFERENCE_LEAGUE
        ELSE s

\* mutant: "EUROPA LEAGUE" is recognised only at the start of the name
norm_cup_name_prefix(s0) ==
    LET s  == Strip(s0)
        su == StrUpper(s)
    IN  IF s = EMPTY THEN EMPTY
        ELSE IF Contains(su, UEFA_CUP) \/ su = UEFA_CUP THEN EUROPA_LEAGUE
        ELSE IF StartsWith(su, EUROPA) THEN EUROPA_LEAGUE
        ELSE IF Contains(su, CHAMPION) THEN CHAMPIONS_LEAGUE
        ELSE IF Contains(su, CONFERENCE) THEN CONFERENCE_LEAGUE
        ELSE s

\* mutant: the third canonical name is spelled "EUROPA CONFERENCE LEAGUE"
norm_cup_name_conf(s0) ==
    LET s  == Strip(s0)
        su == StrUpper(s)
    IN  IF s = EMPTY THEN EMPTY
        ELSE IF Contains(su, UEFA_CUP) \/ su = UEFA_CUP THEN EUROPA_LEAGUE
        ELSE IF Contains(su, EUROPA_LEAGUE) \/ StartsWith(su, EUROPA) THEN EUROPA_LEAGUE
        ELSE IF Contains(su, CHAMPION) THEN CHAMPIONS_LEAGUE
        ELSE IF Contains(su, CONFERENCE) THEN EUROPA \o <<" ">> \o CONFERENCE_LEAGUE
        ELSE s

norm_cup_name(s0) ==
    LET s  == Strip(s0)
        su == StrUpper(s)
    IN  IF s = EMPTY THEN EMPTY
        ELSE IF Contains(su, UEFA_CUP) \/ su = UEFA_CUP THEN EUROPA_LEAGUE
        ELSE IF Contains(su, EUROPA_LEAGUE) \/ StartsWith(su, EUROPA) THEN EUROPA_LEAGUE
        ELSE IF Contains(su, CHAMPION) THEN CHAMPIONS_LEAGUE
        ELSE IF Contains(su, CONFERENCE) THEN CONFERENCE_LEAGUE
        ELSE s

-----------------------------------------------------------------------------
(* norm_text, parse_score                                                  *)

\* norm_text (lines 75-81).  The characters of the model hold neither "Ã" nor
\* "Â", so the re-decoding branch of lines 78-80 is never taken.
RECURSIVE ReplaceNbsp(_)
ReplaceNbsp(s) ==
    IF s = <<>> THEN s
    ELSE <<IF Head(s) = "nbsp" THEN " " ELSE Head(s)>> \o ReplaceNbsp(Tail(s))

norm_text(s) == Strip(ReplaceNbsp(s))

Digits == <<"0","1","2","3","4","5","6","7","8","9">>

IsDigit(c) == \E i \in 1..10 : Digits[i] = c

DigitVal(c) == (CHOOSE i \in 1..10 : Digits[i] = c) - 1

\* \d+ matches the whole of s
IsDigits(s) == s # <<>> /\ \A i \in 1..Len(s) : IsDigit(s[i])

\* int(s) for a string of digits
RECURSIVE StrToInt(_)
StrToInt(s) ==
    IF s = <<>> THEN 0
    ELSE 10 * StrToInt(SubSeq(s, 1, Len(s) - 1)) + DigitVal(s[Len(s)])

\* str(n) for n >= 0
RECURSIVE IntToStr(_)
IntToStr(n) ==
    IF n < 10 THEN <<Digits[n + 1]>>
    ELSE IntToStr(n \div 10) \o <<Digits[(n % 10) + 1]>>

\* Python's None, also the value of a score that does not parse
None == <<>>

ScoreSeparators == {"-", "ndash"}

\* the positions at which ^\s*(\d+)\s*[-–]\s*(\d+)\s*$ can split s
ScoreSplits(s) ==
    { i \in 1..Len(s) :
        /\ s[i] \in ScoreSeparators
        /\ IsDigits(Strip(SubSeq(s, 1, i - 1)))
        /\ IsDigits(Strip(SubSeq(s, i + 1, Len(s)))) }

\* mutant: text after the second number is ignored
parse_score_prefix(s0) ==
    LET s    == Strip(s0)
        ends == { e \in 1..Len(s) : ScoreSplits(SubSeq(s, 1, e)) # {} }
    IN  IF ends = {} THEN None
        ELSE LET t == SubSeq(s, 1, CHOOSE e \in ends : \A d \in ends : d <= e)
                 i == CHOOSE k \in ScoreSplits(t) : TRUE
             IN  << StrToInt(Strip(SubSeq(t, 1, i - 1))),
                    StrToInt(Strip(SubSeq(t, i + 1, Len(t)))) >>

\* parse_score (lines 83-88): None, or the pair of integers
parse_score(s0) ==
    LET s == Strip(s0)
    IN  IF s0 = <<>> \/ ScoreSplits(s) = {} THEN None
        ELSE LET i == CHOOSE k \in ScoreSplits(s) : TRUE
             IN  << StrToInt(Strip(SubSeq(s, 1, i - 1))),
                    StrToInt(Strip(SubSeq(s, i + 1, Len(s)))) >>

-----------------------------------------------------------------------------
(* parse_table_matches: one table row                                      *)
(*                                                                         *)
(* A table row <tr> is [th, label, tds]: th is "none" (no <th>),           *)
(* "cupheader" or "roundheader" (the first <th> holds a <div> of that      *)
(* class, whose text is label) or "plain" (a <th> with neither); tds are   *)
(* its <td> cells [text, bold, colspan].                                   *)

\* mutant: the first team's marker alone decides
two_leg_winner_name_first(team1, team2, t1_bold, t2_bold) ==
    IF t1_bold THEN team1
    ELSE IF t2_bold THEN team2 ELSE EMPTY

\* lines 136-138
two_leg_winner_name(team1, team2, t1_bold, t2_bold) ==
    IF t1_bold /\ ~t2_bold THEN team1
    ELSE IF t2_bold /\ ~t1_bold THEN team2 ELSE EMPTY

\* row1 of lines 142-154.  src_bold is a history field (not a CSV column):
\* the <b> markers of the table row the candidate was made from.
Leg1Row(year, cup, stage, team1, team1_cc, team2, team2_cc, leg1_txt, leg2_txt, l1, winner_name, bolds) ==
    [ season_page |-> year,
      cup |-> cup,
      comp_stage |-> stage,
      leg_no |-> 1,
      home |-> team1, home_cc |-> team1_cc,
      away |-> team2, away_cc |-> team2_cc,
      score |-> leg1_txt,
      goals_home |-> IF l1 # None THEN IntToStr(l1[1]) ELSE EMPTY,
      goals_away |-> IF l1 # None THEN IntToStr(l1[2]) ELSE EMPTY,
      winner |-> EMPTY,
      two_leg_winner |-> IF leg2_txt # EMPTY THEN winner_name ELSE EMPTY,
      src_bold |-> bolds ]

\* mutant: the teams are swapped but the goals are not
Leg2Row_unswapped(year, cup, stage, team1, team1_cc, team2, team2_cc, leg2_txt, l2, bolds) ==
    LET gh2 == IF l2 # None THEN IntToStr(l2[1]) ELSE EMPTY
        ga2 == IF l2 # None THEN IntToStr(l2[2]) ELSE EMPTY
    IN  [ season_page |-> year, cup |-> cup, comp_stage |-> stage, leg_no |-> 2,
          home |-> team2, home_cc |-> team2_cc,
          away |-> team1, away_cc |-> team1_cc,
          score |-> IF gh2 # EMPTY /\ ga2 # EMPTY THEN gh2 \o <<"-">> \o ga2 ELSE leg2_txt,
          goals_home |-> gh2, goals_away |-> ga2,
          winner |-> EMPTY, two_leg_winner |-> EMPTY, src_bold |-> bolds ]

\* row2 of lines 159-174
Leg2Row(year, cup, stage, team1, team1_cc, team2, team2_cc, leg2_txt, l2, bolds) ==
    LET gh2_src == IF l2 # None THEN IntToStr(l2[1]) ELSE EMPTY
        ga2_src == IF l2 # None THEN IntToStr(l2[2]) ELSE EMPTY
        gh2 == ga2_src
        ga2 == gh2_src
        score2 == IF gh2_src # EMPTY /\ ga2_src # EMPTY
                  THEN gh2 \o <<"-">> \o ga2 ELSE leg2_txt
    IN  [ season_page |-> year,
          cup |-> cup,
          comp_stage |-> stage,
          leg_no |-> 2,
          home |-> team2, home_cc |-> team2_cc,
          away |-> team1, away_cc |-> team1_cc,
          score |-> score2, goals_home |-> gh2, goals_away |-> ga2,
          winner |-> EMPTY,
          two_leg_winner |-> EMPTY,
          src_bold |-> bolds ]

\* mutant: leg 1 is emitted only when both team names are non-empty
MainRow_both_teams(tds, cup, stage, year) ==
    LET team1    == norm_text(tds[1].text)
        team1_cc == norm_text(tds[2].text)
        team2    == norm_text(tds[3].text)
        team2_cc == norm_text(tds[4].text)
        leg1_txt == norm_text(tds[5].text)
        leg2_txt == norm_text(tds[6].text)
        l1       == parse_score(leg1_txt)
        l2       == parse_score(leg2_txt)
        name     == two_leg_winner_name(team1, team2, tds[1].bold, tds[3].bold)
        bolds    == <<tds[1].bold, tds[3].bold>>
    IN  (IF team1 # EMPTY /\ team2 # EMPTY
         THEN << Leg1Row(year, cup, stage, team1, team1_cc, team2, team2_cc,
                         leg1_txt, leg2_txt, l1, name, bolds) >>
         ELSE << >>)
        \o
        (IF leg2_txt # EMPTY
         THEN << Leg2Row(year, cup, stage, team1, team1_cc, team2, team2_cc,
                         leg2_txt, l2, bolds) >>
         ELSE << >>)

\* the rows appended to rows_acc for a row of at least 6 cells (lines 124-176)
MainRow(tds, cup, stage, year) ==
    LET team1    == norm_text(tds[1].text)
        team1_cc == norm_text(tds[2].text)
        team2    == norm_text(tds[3].text)
        team2_cc == norm_text(tds[4].text)
        leg1_txt == norm_text(tds[5].text)
        leg2_txt == norm_text(tds[6].text)
        l1       == parse_score(leg1_txt)
        l2       == parse_score(leg2_txt)
        t1_bold  == tds[1].bold
        t2_bold  == tds[3].bold
        name     == two_leg_winner_name(team1, team2, t1_bold, t2_bold)
        bolds    == <<t1_bold, t2_bold>>
    IN  (IF team1 # EMPTY \/ team2 # EMPTY
         THEN << Leg1Row(year, cup, stage, team1, team1_cc, team2, team2_cc,
                         leg1_txt, leg2_txt, l1, name, bolds) >>
         ELSE << >>)
        \o
        (IF leg2_txt # EMPTY
         THEN << Leg2Row(year, cup, stage, team1, team1_cc, team2, team2_cc,
                         leg2_txt, l2, bolds) >>
         ELSE << >>)

\* mutant: the older layout has its leg-1 score in the last cell of the row
FallbackRow_last_cell(tds, cup, stage, year) ==
    LET n        == Len(tds)
        team1    == norm_text(tds[1].text)
        team1_cc == IF n > 1 THEN norm_text(tds[2].text) ELSE EMPTY
        team2    == IF n > 2 THEN norm_text(tds[3].text) ELSE EMPTY
        team2_cc == IF n > 3 THEN norm_text(tds[4].text) ELSE EMPTY
        leg1_txt == norm_text(tds[n].text)
        leg2_txt == IF n > 5 THEN norm_text(tds[6].text) ELSE EMPTY
        l1       == parse_score(leg1_txt)
        l2       == parse_score(leg2_txt)
        t1_bold  == tds[1].bold
        t2_bold  == tds[3].bold
        name     == two_leg_winner_name(team1, team2, t1_bold, t2_bold)
        bolds    == <<t1_bold, t2_bold>>
    IN  (IF team1 # EMPTY \/ team2 # EMPTY
         THEN << Leg1Row(year, cup, stage, team1, team1_cc, team2, team2_cc,
                         leg1_txt, leg2_txt, l1, name, bolds) >>
         ELSE << >>)
        \o
        (IF leg2_txt # EMPTY
         THEN << Leg2Row(year, cup, stage, team1, team1_cc, team2, team2_cc,
                         leg2_txt, l2, bolds) >>
         ELSE << >>)

\* the rows appended to rows_acc for a row of 4 or 5 cells (lines 179-226)
FallbackRow(tds, cup, stage, year) ==
    LET n        == Len(tds)
        team1    == norm_text(tds[1].text)
        team1_cc == IF n > 1 THEN norm_text(tds[2].text) ELSE EMPTY
        team2    == IF n > 2 THEN norm_text(tds[3].text) ELSE EMPTY
        team2_cc == IF n > 3 THEN norm_text(tds[4].text) ELSE EMPTY
        leg1_txt == IF n > 4 THEN norm_text(tds[5].text) ELSE EMPTY
        leg2_txt == IF n > 5 THEN norm_text(tds[6].text) ELSE EMPTY
        l1       == parse_score(leg1_txt)
        l2       == parse_score(leg2_txt)
        t1_bold  == tds[1].bold
        t2_bold  == tds[3].bold
        name     == two_leg_winner_name(team1, team2, t1_bold, t2_bold)
        bolds    == <<t1_bold, t2_bold>>
    IN  (IF team1 # EMPTY \/ team2 # EMPTY
         THEN << Leg1Row(year, cup, stage, team1, team1_cc, team2, team2_cc,
                         leg1_txt, leg2_txt, l1, name, bolds) >>
         ELSE << >>)
        \o
        (IF leg2_txt # EMPTY
         THEN << Leg2Row(year, cup, stage, team1, team1_cc, team2, team2_cc,
                         leg2_txt, l2, bolds) >>
         ELSE << >>)

\* mutant: a competition header keeps the current stage
RowStep_stage_kept(tr, cup, stage, year) ==
    IF tr.th = "cupheader"
        THEN [cup |-> norm_text(tr.label), stage |-> stage, rows |-> << >>]
    ELSE IF tr.th = "roundheader"
        THEN [cup |-> cup, stage |-> norm_text(tr.label), rows |-> << >>]
    ELSE IF tr.tds = << >>
        THEN [cup |-> cup, stage |-> stage, rows |-> << >>]
    ELSE IF Len(tr.tds) = 1 /\ tr.tds[1].colspan
        THEN [cup |-> cup, stage |-> stage, rows |-> << >>]
    ELSE IF Len(tr.tds) >= 6
        THEN [cup |-> cup, stage |-> stage, rows |-> MainRow(tr.tds, cup, stage, year)]
    ELSE IF Len(tr.tds) >= 4
        THEN [cup |-> cup, stage |-> stage, rows |-> FallbackRow(tr.tds, cup, stage, year)]
    ELSE [cup |-> cup, stage |-> stage, rows |-> << >>]

\* mutant: a spanning separator row ends the current stage
RowStep_separator_resets(tr, cup, stage, year) ==
    IF tr.th = "cupheader"
        THEN [cup |-> norm_text(tr.label), stage |-> EMPTY, rows |-> << >>]
    ELSE IF tr.th = "roundheader"
        THEN [cup |-> cup, stage |-> norm_text(tr.label), rows |-> << >>]
    ELSE IF tr.tds = << >>
        THEN [cup |-> cup, stage |-> stage, rows |-> << >>]
    ELSE IF Len(tr.tds) = 1 /\ tr.tds[1].colspan
        THEN [cup |-> cup, stage |-> EMPTY, rows |-> << >>]
    ELSE IF Len(tr.tds) >= 6
        THEN [cup |-> cup, stage |-> stage, rows |-> MainRow(tr.tds, cup, stage, year)]
    ELSE IF Len(tr.tds) >= 4
        THEN [cup |-> cup, stage |-> stage, rows |-> FallbackRow(tr.tds, cup, stage, year)]
    ELSE [cup |-> cup, stage |-> stage, rows |-> << >>]

\* one iteration of the loop of line 111: the context after the row and the
\* rows it appends to rows_acc
RowStep(tr, cup, stage, year) ==
    IF tr.th = "cupheader"
        THEN [cup |-> norm_text(tr.label), stage |-> EMPTY, rows |-> << >>]
    ELSE IF tr.th = "roundheader"
        THEN [cup |-> cup, stage |-> norm_text(tr.label), rows |-> << >>]
    ELSE IF tr.tds = << >>
        THEN [cup |-> cup, stage |-> stage, rows |-> << >>]
    ELSE IF Len(tr.tds) = 1 /\ tr.tds[1].colspan
        THEN [cup |-> cup, stage |-> stage, rows |-> << >>]
    ELSE IF Len(tr.tds) >= 6
        THEN [cup |-> cup, stage |-> stage, rows |-> MainRow(tr.tds, cup, stage, year)]
    ELSE IF Len(tr.tds) >= 4
        THEN [cup |-> cup, stage |-> stage, rows |-> FallbackRow(tr.tds, cup, stage, year)]
    ELSE [cup |-> cup, stage |-> stage, rows |-> << >>]

-----------------------------------------------------------------------------
(* The per-year CSV files                                                  *)

\* the cell texts pandas.read_csv reads as missing (its default na_values);
\* line 293 then fills them with ""
NaTokens ==
  { <<>>,
    <<"#","N","/","A">>,
    <<"#","N","/","A"," ","N","/","A">>,
    <<"#","N","A">>,
    <<"-","1",".","#","I","N","D">>,
    <<"-","1",".","#","Q","N","A","N">>,
    <<"-","N","a","N">>,
    <<"-","n","a","n">>,
    <<"1",".","#","I","N","D">>,
    <<"1",".","#","Q","N","A","N">>,
    <<"<","N","A",">">>,
    <<"N","/","A">>,
    <<"N","A">>,
    <<"N","U","L","L">>,
    <<"N","a","N">>,
    <<"N","o","n","e">>,
    <<"n","/","a">>,
    <<"n","a","n">>,
    <<"n","u","l","l">> }

CSV_FIELDS ==
    << "season_page", "cup", "comp_stage", "leg_no", "home", "home_cc", "away",
       "away_cc", "score", "goals_home", "goals_away", "winner", "two_leg_winner" >>

\* csv.DictWriter writes every value as text (save_per_year_csv, lines 230-235)
CsvWriteRow(r) ==
    [r EXCEPT !.season_page = IntToStr(r.season_page),
              !.leg_no = IntToStr(r.leg_no)]

save_per_year_csv(rows) == [i \in 1..Len(rows) |-> CsvWriteRow(rows[i])]

\* pd.read_csv(pf, dtype=str) followed by fillna("") (lines 290, 293)
CsvReadRow(r) ==
    [f \in DOMAIN r |->
        IF f = "src_bold" THEN r[f]
        ELSE IF r[f] \in NaTokens THEN EMPTY ELSE r[f]]

read_csv(rows) == [i \in 1..Len(rows) |-> CsvReadRow(rows[i])]

\* sorted(DIR_RAW.glob(...)): the files in ascending order of their year
RECURSIVE SortedYears(_)
SortedYears(S) ==
    IF S = {} THEN << >>
    ELSE LET m == CHOOSE a \in S : \A b \in S : a <= b
         IN  <<m>> \o SortedYears(S \ {m})

\* mutant: only the newest file is read
ConcatFrames_newest(ys, disk) ==
    IF ys = << >> THEN << >> ELSE read_csv(disk[ys[Len(ys)]])

\* pd.concat(frames) over the files in that order (lines 287-293)
RECURSIVE ConcatFrames(_, _)
ConcatFrames(ys, disk) ==
    IF ys = << >> THEN << >>
    ELSE read_csv(disk[Head(ys)]) \o ConcatFrames(Tail(ys), disk)

-----------------------------------------------------------------------------
(* Dimension builder (lines 296-329)                                       *)

\* pd.NA
NULL == -1

\* Series.unique(): the distinct values in order of first appearance
RECURSIVE Unique(_)
Unique(s) ==
    IF s = << >> THEN << >>
    ELSE LET front == Unique(SubSeq(s, 1, Len(s) - 1))
             last  == s[Len(s)]
         IN  IF \E i \in 1..Len(front) : front[i] = last
             THEN front ELSE Append(front, last)

Range(s) == { s[i] : i \in 1..Len(s) }

\* the non-empty strings of s, in order
RECURSIVE SelectNonEmpty(_)
SelectNonEmpty(s) ==
    IF s = << >> THEN << >>
    ELSE IF Head(s) # EMPTY THEN <<Head(s)>> \o SelectNonEmpty(Tail(s))
    ELSE SelectNonEmpty(Tail(s))

\* sorted(...) of distinct strings
RECURSIVE SortedStrs(_)
SortedStrs(S) ==
    IF S = {} THEN << >>
    ELSE LET m == CHOOSE a \in S : \A b \in S \ {a} : StrLess(a, b)
         IN  <<m>> \o SortedStrs(S \ {m})

\* CUP_ID_FIXED (line 299), in the order of its items()
CUP_ID_FIXED ==
    << [cup_kes |-> CHAMPIONS_LEAGUE,  cup_id |-> 1],
       [cup_kes |-> EUROPA_LEAGUE,     cup_id |-> 2],
       [cup_kes |-> CONFERENCE_LEAGUE, cup_id |-> 3] >>

FixedNames == { CUP_ID_FIXED[i].cup_kes : i \in 1..Len(CUP_ID_FIXED) }

\* line 298
cups_unique_of(frame) ==
    SelectNonEmpty(Unique([i \in 1..Len(frame) |-> norm_cup_name(frame[i].cup)]))

\* lines 302-303: the fixed rows, for the fixed names that occur
RECURSIVE FixedCupRows(_, _)
FixedCupRows(fixed, cups_unique) ==
    IF fixed = << >> THEN << >>
    ELSE (IF Head(fixed).cup_kes \in Range(cups_unique)
          THEN << [cup_id |-> Head(fixed).cup_id, cup_kes |-> Head(fixed).cup_kes] >>
          ELSE << >>)
         \o FixedCupRows(Tail(fixed), cups_unique)

\* mutant: the remaining names keep the order in which they were discovered
RemainingCups_unsorted(cups_unique) ==
    LET keep(i) == cups_unique[i] \notin FixedNames
        RECURSIVE Pick(_)
        Pick(i) == IF i > Len(cups_unique) THEN << >>
                   ELSE (IF keep(i) THEN <<cups_unique[i]>> ELSE << >>) \o Pick(i + 1)
    IN  Pick(1)

\* line 304
RemainingCups(cups_unique) ==
    SortedStrs({ c \in Range(cups_unique) : c \notin FixedNames })

\* line 307: while next_id in used: next_id += 1
RECURSIVE SkipUsed(_, _)
SkipUsed(next_id, used) ==
    IF next_id \in used THEN SkipUsed(next_id + 1, used) ELSE next_id

\* lines 306-308
RECURSIVE AssignRemaining(_, _, _)
AssignRemaining(remaining, next_id, used) ==
    IF remaining = << >> THEN << >>
    ELSE LET id == SkipUsed(next_id, used)
         IN  << [cup_id |-> id, cup_kes |-> Head(remaining)] >>
             \o AssignRemaining(Tail(remaining), id + 1, used \cup {id})

\* DataFrame.sort_values on an integer column with distinct values
RECURSIVE SortById(_, _)
SortById(rows, key) ==
    IF rows = {} THEN << >>
    ELSE LET m == CHOOSE a \in rows : \A b \in rows : a[key] <= b[key]
         IN  <<m>> \o SortById(rows \ {m}, key)

\* mutant: the remaining names are numbered from 1, the reserved ids not skipped
cup_rows_of_from_one(frame) ==
    LET cups_unique == cups_unique_of(frame)
        fixed_rows  == FixedCupRows(CUP_ID_FIXED, cups_unique)
    IN  fixed_rows \o AssignRemaining(RemainingCups(cups_unique), 1, {})

\* cup_rows of lines 301-308
cup_rows_of(frame) ==
    LET cups_unique == cups_unique_of(frame)
        fixed_rows  == FixedCupRows(CUP_ID_FIXED, cups_unique)
        used        == { fixed_rows[i].cup_id : i \in 1..Len(fixed_rows) }
    IN  fixed_rows \o AssignRemaining(RemainingCups(cups_unique), 4, used)

\* dict(zip(names, ids)): a later row with the same name overrides an earlier one
RECURSIVE DictOf(_, _, _)
DictOf(rows, keyf, valf) ==
    IF rows = << >> THEN << >>
    ELSE LET r == rows[Len(rows)]
         IN  (r[keyf] :> r[valf]) @@ DictOf(SubSeq(rows, 1, Len(rows) - 1), keyf, valf)

\* dict.get(key, pd.NA)
Get(map, key) == IF key \in DOMAIN map THEN map[key] ELSE NULL

\* mutant: the key keeps its letter case
norm_key_cased(s) == Strip(s)

\* _norm_key (line 71)
norm_key(s) == StrLower(Strip(s))

\* PROVIDED_STAGE_MAPPING (lines 48-69)
PROVIDED_STAGE_MAPPING ==
  << [stage_id |-> 1, comp_stage |-> <<"F","i","n","a","l">>, importance |-> 1],
     [stage_id |-> 2, comp_stage |-> <<"S","e","m","i"," ","F","i","n","a","l","s">>, importance |-> 2],
     [stage_id |-> 3, comp_stage |-> <<"Q","u","a","r","t","e","r"," ","F","i","n","a","l","s">>, importance |-> 3],
     [stage_id |-> 4, comp_stage |-> <<"2","n","d"," ","G","r","o","u","p"," ","S","t","a","g","e">>, importance |-> 4],
     [stage_id |-> 5, comp_stage |-> <<"R","o","u","n","d"," ","4">>, importance |-> 4],
     [stage_id |-> 6, comp_stage |-> <<"R","o","u","n","d"," ","o","f"," ","1","6">>, importance |-> 4],
     [stage_id |-> 7, comp_stage |-> <<"K","n","o","c","k","o","u","t"," ","r","o","u","n","d"," ","p","l","a","y","-","o","f","f","s">>, importance |-> 5],
     [stage_id |-> 8, comp_stage |-> <<"R","o","u","n","d"," ","3">>, importance |-> 6],
     [stage_id |-> 9, comp_stage |-> <<"1","s","t"," ","G","r","o","u","p"," ","S","t","a","g","e">>, importance |-> 7],
     [stage_id |-> 10, comp_stage |-> <<"G","r","o","u","p"," ","S","t","a","g","e">>, importance |-> 7],
     [stage_id |-> 11, comp_stage |-> <<"L","e","a","g","u","e"," ","S","t","a","g","e">>, importance |-> 7],
     [stage_id |-> 12, comp_stage |-> <<"R","o","u","n","d"," ","2">>, importance |-> 8],
     [stage_id |-> 13, comp_stage |-> <<"R","o","u","n","d"," ","1">>, importance |-> 9],
     [stage_id |-> 14, comp_stage |-> <<"4","t","h"," ","Q","u","a","l","i","f","y","i","n","g"," ","o","r"," ","P","l","a","y","-","o","f","f"," ","R","o","u","n","d">>, importance |-> 10],
     [stage_id |-> 15, comp_stage |-> <<"Q","u","a","l","i","f","y","i","n","g"," ","P","l","a","y","-","o","f","f"," ","R","o","u","n","d">>, importance |-> 10],
     [stage_id |-> 16, comp_stage |-> <<"3","r","d"," ","Q","u","a","l","i","f","y","i","n","g"," ","R","o","u","n","d">>, importance |-> 11],
     [stage_id |-> 17, comp_stage |-> <<"2","n","d"," ","Q","u","a","l","i","f","y","i","n","g"," ","R","o","u","n","d">>, importance |-> 12],
     [stage_id |-> 18, comp_stage |-> <<"Q","u","a","l","i","f","y","i","n","g"," ","R","o","u","n","d">>, importance |-> 12],
     [stage_id |-> 19, comp_stage |-> <<"1","s","t"," ","Q","u","a","l","i","f","y","i","n","g"," ","R","o","u","n","d">>, importance |-> 13],
     [stage_id |-> 20, comp_stage |-> <<"P","r","e","l","i","m","i","n","a","r","y"," ","R","o","u","n","d">>, importance |-> 14] >>

WINNER_STAGE == [stage_id |-> 0, comp_stage_kes |-> <<"W","i","n","n","e","r">>, importance |-> 0]

\* dim_stages_rows after lines 313-315, as a sequence in ascending stage_id
SeededStages ==
    <<WINNER_STAGE>> \o
    [ i \in 1..Len(PROVIDED_STAGE_MAPPING) |->
        [ stage_id |-> PROVIDED_STAGE_MAPPING[i].stage_id,
          comp_stage_kes |-> PROVIDED_STAGE_MAPPING[i].comp_stage,
          importance |-> PROVIDED_STAGE_MAPPING[i].importance ] ]

\* seen_norm of line 318
SeededNormKeys == { norm_key(SeededStages[i].comp_stage_kes) : i \in 1..Len(SeededStages) }

MaxOf(S) == CHOOSE a \in S : \A b \in S : b <= a

\* mutant: only the stage of the first row is collected
unique_stages_of_first(frame) ==
    SelectNonEmpty(Unique([i \in 1..(IF frame = << >> THEN 0 ELSE 1) |-> Strip(frame[i].comp_stage)]))

\* line 312
unique_stages_of(frame) ==
    SelectNonEmpty(Unique([i \in 1..Len(frame) |-> Strip(frame[i].comp_stage)]))

\* mutant: an added stage is not remembered as seen
RECURSIVE AddUnseenStages_forgetful(_, _, _)
AddUnseenStages_forgetful(stages, seen_norm, next_stage_id) ==
    IF stages = << >> THEN << >>
    ELSE LET s  == Head(stages)
             nk == norm_key(s)
         IN  IF nk \notin seen_norm
             THEN << [stage_id |-> next_stage_id, comp_stage_kes |-> s, importance |-> 0] >>
                  \o AddUnseenStages_forgetful(Tail(stages), seen_norm, next_stage_id + 1)
             ELSE AddUnseenStages_forgetful(Tail(stages), seen_norm, next_stage_id)

\* lines 319-323: the rows added for the stages not seen yet
RECURSIVE AddUnseenStages(_, _, _)
AddUnseenStages(stages, seen_norm, next_stage_id) ==
    IF stages = << >> THEN << >>
    ELSE LET s  == Head(stages)
             nk == norm_key(s)
         IN  IF nk \notin seen_norm
             THEN << [stage_id |-> next_stage_id, comp_stage_kes |-> s, importance |-> 0] >>
                  \o AddUnseenStages(Tail(stages), seen_norm \cup {nk}, next_stage_id + 1)
             ELSE AddUnseenStages(Tail(stages), seen_norm, next_stage_id)

\* mutant: the unseen stages are added in the order of their discovery
dim_stages_of_discovery(frame) ==
    LET seeded   == SeededStages
        next_id  == MaxOf({ seeded[i].stage_id : i \in 1..Len(seeded) }) + 1
        added    == AddUnseenStages(unique_stages_of(frame), SeededNormKeys, next_id)
    IN  SortById(Range(seeded \o added), "stage_id")

\* dim_stages of lines 313-324
dim_stages_of(frame) ==
    LET seeded   == SeededStages
        next_id  == MaxOf({ seeded[i].stage_id : i \in 1..Len(seeded) }) + 1
        added    == AddUnseenStages(SortedStrs(Range(unique_stages_of(frame))),
                                    SeededNormKeys, next_id)
    IN  SortById(Range(seeded \o added), "stage_id")

\* line 325: a later row with the same key overrides an earlier one
RECURSIVE stage_map_norm_of(_)
stage_map_norm_of(stages) ==
    IF stages = << >> THEN << >>
    ELSE LET r == stages[Len(stages)]
         IN  (norm_key(r.comp_stage_kes) :> r.stage_id)
             @@ stage_map_norm_of(SubSeq(stages, 1, Len(stages) - 1))

\* mutant: only the home column is collected
clubs_of_home(frame) ==
    SortedStrs({ c \in { Strip(frame[i].home) : i \in 1..Len(frame) } : c # EMPTY })

\* line 327
clubs_of(frame) ==
    SortedStrs({ c \in { Strip(frame[i].home) : i \in 1..Len(frame) }
                       \cup { Strip(frame[i].away) : i \in 1..Len(frame) } : c # EMPTY })

\* line 328
dim_clubs_of(frame) ==
    LET clubs == clubs_of(frame)
    IN  [ i \in 1..Len(clubs) |-> [club_id |-> i, club_name_kes |-> clubs[i]] ]

-----------------------------------------------------------------------------
(* Fact assembler (lines 332-365)                                          *)

DRAW    == <<"d","r","a","w">>
NA_TEXT == <<"<","N","A",">">>

\* pd.to_numeric(column, errors='coerce') of one cell; NULL stands for NaN
to_numeric(s) == IF IsDigits(s) THEN StrToInt(s) ELSE NULL

\* Series.astype('Int64').astype(str) of one cell
IdText(id) == IF id = NULL THEN NA_TEXT ELSE IntToStr(id)

\* mutant: equal goal counts go to the home club
winner_of_home_on_tie(gh, ga, home_id, away_id) ==
    IF gh = NULL \/ ga = NULL THEN EMPTY
    ELSE IF gh >= ga THEN IdText(home_id)
    ELSE IdText(away_id)

\* lines 351-357, for one row: gh, ga are the numeric goal counts (NULL: NaN)
winner_of(gh, ga, home_id, away_id) ==
    IF gh = NULL \/ ga = NULL THEN EMPTY
    ELSE IF gh = ga THEN DRAW
    ELSE IF gh > ga THEN IdText(home_id)
    ELSE IdText(away_id)

\* mutant: the id is looked up from the home column
two_leg_winner_id_home(r, clubs) ==
    IF r.leg_no = <<"1">> THEN Get(clubs, Strip(r.home)) ELSE NULL

\* lines 360-362, for one row
two_leg_winner_id(r, clubs) ==
    IF r.leg_no = <<"1">> THEN Get(clubs, Strip(r.two_leg_winner)) ELSE NULL

\* the row of fact made from row r of df
FactRow(r, cups, stages, clubs) ==
    LET home_id == Get(clubs, Strip(r.home))
        away_id == Get(clubs, Strip(r.away))
    IN  [ season_page    |-> r.season_page,
          leg_no         |-> to_numeric(r.leg_no),
          cup_id         |-> Get(cups, Strip(r.cup_norm_kes)),
          comp_stage_id  |-> Get(stages, norm_key(r.comp_stage)),
          home_club_id   |-> home_id,
          away_club_id   |-> away_id,
          home_cc        |-> r.home_cc,
          away_cc        |-> r.away_cc,
          score          |-> r.score,
          goals_home     |-> r.goals_home,
          goals_away     |-> r.goals_away,
          winner         |-> winner_of(to_numeric(r.goals_home), to_numeric(r.goals_away),
                                       home_id, away_id),
          two_leg_winner |-> two_leg_winner_id(r, clubs) ]

\* np.where of line 351 picks a pd.NA club id for some row: the goals differ
\* and the club on the winning side has no id
PicksNullId(frame, clubs) ==
    \E i \in 1..Len(frame) :
        LET gh == to_numeric(frame[i].goals_home)
            ga == to_numeric(frame[i].goals_away)
        IN  /\ gh # NULL /\ ga # NULL
            /\ \/ gh > ga /\ Get(clubs, Strip(frame[i].home)) = NULL
               \/ gh < ga /\ Get(clubs, Strip(frame[i].away)) = NULL

-----------------------------------------------------------------------------
(* main (lines 257-385)                                                    *)

FIRST_YEAR == 2000
LAST_YEAR  == 2026

\* url_for_year (lines 238-244) returns a URL
SupportedYear(yr) == FIRST_YEAR <= yr /\ yr <= LAST_YEAR

\* the default of the parameter retries of fetch_html (line 246)
RETRIES == 3

\* the outcomes of one sess.get: a response with r.ok, a response with an
\* error status, an exception (time-out, connection error)
Outcomes == {"ok", "http_error", "exception"}

\* mutant: the first attempt is not repeated
fetch_html_once(resps, a, retries) ==
    IF resps[a] = "ok" THEN [html |-> TRUE, sent |-> a]
    ELSE [html |-> FALSE, sent |-> a]

\* fetch_html (lines 246-255) from attempt a on: resps[a] is the outcome of
\* the a-th request.  html: a page is returned (FALSE: the last error is
\* raised); sent: the number of requests made.
RECURSIVE fetch_html(_, _, _)
fetch_html(resps, a, retries) ==
    IF a > retries THEN [html |-> FALSE, sent |-> retries]
    ELSE IF resps[a] = "ok" THEN [html |-> TRUE, sent |-> a]
    ELSE fetch_html(resps, a + 1, retries)

\* line 277: fetch_html(sess, url_for_year(yr)); url_for_year raises before
\* any request is made
FetchYear(yr) ==
    IF SupportedYear(yr) THEN fetch_html(responses[yr], 1, RETRIES)
    ELSE [html |-> FALSE, sent |-> 0]

\* fetch_html(sess, url_for_year(yr)) returns the page
FetchSucceeds(yr) == FetchYear(yr).html

\* line 281: a page is walked from no competition, no stage and no rows
PageStart == [cup |-> EMPTY, stage |-> EMPTY, rows |-> << >>]

\* mutant: the file of the year replaces the directory
WriteFile_alone(disk, year, rows) == (year :> save_per_year_csv(rows))

\* save_per_year_csv on DIR_RAW (line 284): the file of the year is written
\* anew, the other files stay
WriteFile(disk, year, rows) == (year :> save_per_year_csv(rows)) @@ disk

\* lines 262-269
to_fetch_of(yrs, ow, disk) ==
    LET existing_years == SelectSeq(yrs, LAMBDA a : a \in DOMAIN disk)
    IN  IF ow \/ existing_years = << >> THEN yrs
        ELSE << MaxOf(Range(yrs)) >>

\* lines 258-271
Start ==
    /\ pc = "start"
    /\ to_fetch' = to_fetch_of(years, overwrite, files)
    /\ pc' = "loop"
    /\ UNCHANGED <<site, files, years, overwrite, y, tables, trs, current_cup,
                   current_stage, year_rows, df, dim_cups, cup_map, dim_stages,
                   stage_map_norm, dim_clubs, club_map, fact, err, cup_trace,
                   responses, requests, uefaVars>>

\* lines 275-281: the next year of the loop; a failed fetch skips the year
Fetch ==
    /\ pc = "loop"
    /\ to_fetch # << >>
    /\ y' = Head(to_fetch)
    /\ to_fetch' = Tail(to_fetch)
    /\ requests' = requests \o [i \in 1..FetchYear(Head(to_fetch)).sent |-> Head(to_fetch)]
    /\ IF FetchSucceeds(Head(to_fetch))
       THEN /\ tables' = site[Head(to_fetch)]
            /\ current_cup' = PageStart.cup
            /\ current_stage' = PageStart.stage
            /\ year_rows' = PageStart.rows
            /\ pc' = "tables"
       ELSE /\ UNCHANGED <<tables, current_cup, current_stage, year_rows>>
            /\ pc' = "loop"
    /\ UNCHANGED <<site, files, years, overwrite, trs, df, dim_cups, cup_map,
                   dim_stages, stage_map_norm, dim_clubs, club_map, fact, err,
                   cup_trace, responses, uefaVars>>

\* line 282-283: the call of parse_table_matches for the next table
EnterTable ==
    /\ pc = "tables"
    /\ tables # << >>
    /\ trs' = Head(tables)
    /\ tables' = Tail(tables)
    /\ pc' = "rows"
    /\ UNCHANGED <<site, files, years, overwrite, to_fetch, y, current_cup,
                   current_stage, year_rows, df, dim_cups, cup_map, dim_stages,
                   stage_map_norm, dim_clubs, club_map, fact, err, cup_trace,
                   responses, requests, uefaVars>>

\* lines 111-226: one iteration of the loop over the rows of the table
WalkRow ==
    /\ pc = "rows"
    /\ trs # << >>
    /\ LET step == RowStep(Head(trs), current_cup, current_stage, y)
       IN  /\ current_cup' = step.cup
           /\ current_stage' = step.stage
           /\ year_rows' = year_rows \o step.rows
    /\ trs' = Tail(trs)
    /\ UNCHANGED <<site, files, years, overwrite, pc, to_fetch, y, tables, df,
                   dim_cups, cup_map, dim_stages, stage_map_norm, dim_clubs,
                   club_map, fact, err, cup_trace,
                   responses, requests, uefaVars>>

\* line 227 and the assignment of line 283
ReturnTable ==
    /\ pc = "rows"
    /\ trs = << >>
    /\ pc' = "tables"
    /\ UNCHANGED <<site, files, years, overwrite, to_fetch, y, tables, trs,
                   current_cup, current_stage, year_rows, df, dim_cups, cup_map,
                   dim_stages, stage_map_norm, dim_clubs, club_map, fact, err,
                   cup_trace,
                   responses, requests, uefaVars>>

\* line 284
SaveYear ==
    /\ pc = "tables"
    /\ tables = << >>
    /\ files' = WriteFile(files, y, year_rows)
    /\ pc' = "loop"
    /\ UNCHANGED <<site, years, overwrite, to_fetch, y, tables, trs, current_cup,
                   current_stage, year_rows, df, dim_cups, cup_map, dim_stages,
                   stage_map_norm, dim_clubs, club_map, fact, err, cup_trace,
                   responses, requests, uefaVars>>

\* lines 287-293
Merge ==
    /\ pc = "loop"
    /\ to_fetch = << >>
    /\ df' = ConcatFrames(SortedYears(DOMAIN files), files)
    /\ pc' = "cups"
    /\ UNCHANGED <<site, files, years, overwrite, to_fetch, y, tables, trs,
                   current_cup, current_stage, year_rows, dim_cups, cup_map,
                   dim_stages, stage_map_norm, dim_clubs, club_map, fact, err,
                   cup_trace,
                   responses, requests, uefaVars>>

\* lines 296-310.  With no row in cup_rows, pd.DataFrame(cup_rows) has no
\* column 'cup_id' and sort_values raises KeyError.
BuildCups ==
    /\ pc = "cups"
    /\ df' = [i \in 1..Len(df) |->
                df[i] @@ ("cup_norm_kes" :> norm_cup_name(df[i].cup))]
    /\ LET cup_rows == cup_rows_of(df)
       IN  IF cup_rows = << >>
           THEN /\ pc' = "failed"
                /\ err' = "KeyError"
                /\ UNCHANGED <<dim_cups, cup_map>>
           ELSE /\ dim_cups' = SortById(Range(cup_rows), "cup_id")
                /\ cup_map' = DictOf(dim_cups', "cup_kes", "cup_id")
                /\ pc' = "stages"
                /\ err' = err
    /\ UNCHANGED <<site, files, years, overwrite, to_fetch, y, tables, trs,
                   current_cup, current_stage, year_rows, dim_stages,
                   stage_map_norm, dim_clubs, club_map, fact, cup_trace,
                   responses, requests, uefaVars>>

\* lines 312-325
BuildStages ==
    /\ pc = "stages"
    /\ dim_stages' = dim_stages_of(df)
    /\ stage_map_norm' = stage_map_norm_of(dim_stages')
    /\ pc' = "clubs"
    /\ UNCHANGED <<site, files, years, overwrite, to_fetch, y, tables, trs,
                   current_cup, current_stage, year_rows, df, dim_cups, cup_map,
                   dim_clubs, club_map, fact, err, cup_trace,
                   responses, requests, uefaVars>>

\* lines 327-329
BuildClubs ==
    /\ pc = "clubs"
    /\ dim_clubs' = dim_clubs_of(df)
    /\ club_map' = DictOf(dim_clubs', "club_name_kes", "club_id")
    /\ pc' = "fact"
    /\ UNCHANGED <<site, files, years, overwrite, to_fetch, y, tables, trs,
                   current_cup, current_stage, year_rows, df, dim_cups, cup_map,
                   dim_stages, stage_map_norm, fact, err, cup_trace,
                   responses, requests, uefaVars>>

\* lines 332-365.  np.where(gh > ga, home_id, ...) reads the Int64 column
\* home_id through numpy: a pandas that hands numpy an object array holding
\* pd.NA (na_as_object) makes pd.Series(winner_id, dtype="float") of line 352
\* raise TypeError when a pd.NA was picked; a pandas that hands numpy a float
\* array holding NaN makes the winner of such a row the text "<NA>".
AssembleFact ==
    /\ pc = "fact"
    /\ \E na_as_object \in BOOLEAN :
         IF na_as_object /\ PicksNullId(df, club_map)
         THEN /\ pc' = "failed"
              /\ err' = "TypeError"
              /\ fact' = fact
         ELSE /\ fact' = [i \in 1..Len(df) |->
                            FactRow(df[i], cup_map, stage_map_norm, club_map)]
              /\ pc' = "write"
              /\ err' = err
    /\ UNCHANGED <<site, files, years, overwrite, to_fetch, y, tables, trs,
                   current_cup, current_stage, year_rows, df, dim_cups, cup_map,
                   dim_stages, stage_map_norm, dim_clubs, club_map, cup_trace,
                   responses, requests, uefaVars>>

\* lines 368-385
WriteParquet ==
    /\ pc = "write"
    /\ pc' = "done"
    /\ UNCHANGED <<site, files, years, overwrite, to_fetch, y, tables, trs,
                   current_cup, current_stage, year_rows, df, dim_cups, cup_map,
                   dim_stages, stage_map_norm, dim_clubs, club_map, fact, err,
                   cup_trace,
                   responses, requests, uefaVars>>

Next ==
    \/ Start
    \/ Fetch
    \/ EnterTable
    \/ WalkRow
    \/ ReturnTable
    \/ SaveYear
    \/ Merge
    \/ BuildCups
    \/ BuildStages
    \/ BuildClubs
    \/ AssembleFact
    \/ WriteParquet

-----------------------------------------------------------------------------
(* The pages of the site                                                   *)

\* goal counts printed in the score cells run from 0 to MaxGoal
MaxGoal == 2

\* the number of competition blocks of a page of SpecDims
MaxCups == 3

Cell(text, bold) == [text |-> text, bold |-> bold, colspan |-> FALSE]

CupHeader(label)   == [th |-> "cupheader",   label |-> label, tds |-> << >>]
RoundHeader(label) == [th |-> "roundheader", label |-> label, tds |-> << >>]

AJAX   == <<"A","j","a","x">>
BAYERN == <<"B","a","y","e","r","n">>

\* the text of a team cell: a name, or a non-breaking space for no name
Team1Texts == { <<"nbsp">>, AJAX }
Team2Texts == { <<"nbsp">>, <<"nbsp">> \o BAYERN \o <<" ">> }

\* the country code printed next to a team
CcText(team) ==
    IF team = AJAX THEN <<"N","e","d","nbsp">>
    ELSE IF team = <<"nbsp">> THEN <<"nbsp">>
    ELSE <<"G","e","r">>

ScoreText(a, b) == IntToStr(a) \o <<"-">> \o IntToStr(b)

\* the text of a score cell: a-b, no score, a postponed match, an en-dash,
\* leading zeros and inner spaces
ScoreTexts ==
    { ScoreText(a, b) : a \in 0..MaxGoal, b \in 0..MaxGoal }
    \cup { <<"nbsp">>,
           <<"p",".","p",".">>,
           <<"1","ndash","0">>,
           <<"0","2"," ","-"," ","1">> }

\* a row of n <td> cells: team1, cc, team2, cc, leg 1, leg 2, and a note
DataRow(n, team1, b1, team2, b2, leg1, leg2) ==
    [ th |-> "none", label |-> EMPTY,
      tds |-> SubSeq(<< Cell(team1, b1), Cell(CcText(team1), FALSE),
                        Cell(team2, b2), Cell(CcText(team2), FALSE),
                        Cell(leg1, FALSE), Cell(leg2, FALSE),
                        Cell(<<"nbsp">>, FALSE) >>, 1, n) ]

DataRows ==
    { DataRow(n, t1, b1, t2, b2, l1, l2) :
        n \in 4..7, t1 \in Team1Texts, b1 \in BOOLEAN, t2 \in Team2Texts,
        b2 \in BOOLEAN, l1 \in ScoreTexts, l2 \in ScoreTexts }

CL_LABEL    == <<"C","h","a","m","p","i","o","n","s"," ","L","e","a","g","u","e">>
FINAL_LABEL == <<"F","i","n","a","l","nbsp">>

\* a tie printed after the row under test
LaterTie == DataRow(6, BAYERN, FALSE, AJAX, TRUE, ScoreText(1, 1), ScoreText(0, 1))

NoFact ==
    /\ df = << >> /\ dim_cups = << >> /\ cup_map = << >> /\ dim_stages = << >>
    /\ stage_map_norm = << >> /\ dim_clubs = << >> /\ club_map = << >>
    /\ fact = << >> /\ err = "none"

\* the site answers every request, and none was sent yet
SiteUp ==
    /\ responses = [yr \in DOMAIN site |-> [a \in 1..RETRIES |-> "ok"]]
    /\ requests = << >>

\* UEFAClubData.main is not running
UefaIdle ==
    /\ raw_files = << >> /\ details_rows = << >>
    /\ clubs_map = << >> /\ logos_map = << >>
    /\ fetch_all = FALSE /\ years_left = << >> /\ outputs = << >>

NotWalking ==
    /\ pc = "start" /\ to_fetch = << >> /\ y = 0 /\ tables = << >> /\ trs = << >>
    /\ current_cup = EMPTY /\ current_stage = EMPTY /\ year_rows = << >>

\* Spec: one season page of one table: a competition header, a stage header,
\* any one data row, and a later tie
Init ==
    /\ years = << LAST_YEAR >>
    /\ overwrite = FALSE
    /\ files = << >>
    /\ \E r \in DataRows :
         site = (LAST_YEAR :> << << CupHeader(CL_LABEL), RoundHeader(FINAL_LABEL),
                                    r, LaterTie >> >>)
    /\ SiteUp
    /\ UefaIdle
    /\ NotWalking
    /\ NoFact
    /\ cup_trace = << >>

Spec == Init /\ [][Next]_vars

-----------------------------------------------------------------------------
(* SpecDims: a season page of competition blocks                           *)

\* the header texts of the competitions of SpecDims
DimLabels ==
  { <<"C","h","a","m","p","i","o","n","s"," ","L","e","a","g","u","e">>,
    <<"C","o","n","f","e","r","e","n","c","e"," ","L","e","a","g","u","e">>,
    <<"U","E","F","A"," ","C","U","P">>,
    <<"nbsp","u","e","f","a"," ","c","u","p"," ">>,
    <<"U","E","F","A"," ","E","u","r","o","p","a"," ","L","e","a","g","u","e">>,
    <<"I","n","t","e","r","t","o","t","o"," ","C","u","p">>,
    <<"S","u","p","e","r"," ","C","u","p">>,
    <<"C","u","p"," ","W","i","n","n","e","r","s"," ","C","u","p">> }

\* the match printed under each competition header
BlockTie == DataRow(5, AJAX, FALSE, BAYERN, FALSE, ScoreText(1, 0), <<"nbsp">>)

RECURSIVE Blocks(_)
Blocks(labels) ==
    IF labels = << >> THEN << >>
    ELSE << CupHeader(Head(labels)), BlockTie >> \o Blocks(Tail(labels))

InitDims ==
    /\ years = << LAST_YEAR >>
    /\ overwrite = FALSE
    /\ files = << >>
    /\ \E n \in 1..MaxCups : \E labels \in [1..n -> DimLabels] :
         site = (LAST_YEAR :> << Blocks(labels) >>)
    /\ SiteUp
    /\ UefaIdle
    /\ NotWalking
    /\ NoFact
    /\ cup_trace = << >>

SpecDims == InitDims /\ [][Next]_vars

-----------------------------------------------------------------------------
(* SpecStages: a season page of stage blocks                               *)

\* the number of stage blocks of a page of SpecStages
MaxBlocks == 3

AJAX_LOWER == <<"a","j","a","x">>

SUPER_CUP_LABEL == <<"S","u","p","e","r"," ","C","u","p">>
INTERTOTO_LABEL == <<"I","n","t","e","r","t","o","t","o"," ","C","u","p">>

\* a match of one leg: five cells
SingleLeg(team1, team2, a, b) ==
    DataRow(5, team1, FALSE, team2, FALSE, ScoreText(a, b), <<"nbsp">>)

\* a competition header, a stage header and the match printed under them
StageBlock(cup, stage, tie) == << CupHeader(cup), RoundHeader(stage), tie >>

StageBlocks ==
  { StageBlock(CL_LABEL, <<"nbsp">> \o <<"q","u","a","r","t","e","r"," ","f","i","n","a","l","s"," ">>, SingleLeg(AJAX_LOWER, AJAX, 0, 0)),
    StageBlock(CL_LABEL, <<"Q","u","a","r","t","e","r"," "," ","F","i","n","a","l","s">>, SingleLeg(AJAX, BAYERN, 1, 0)),
    StageBlock(SUPER_CUP_LABEL, <<"S","e","m","i"," ","F","i","n","a","l","s"," ","r","e","p","l","a","y">>, SingleLeg(AJAX, BAYERN, 1, 0)),
    StageBlock(SUPER_CUP_LABEL, <<"R","e","p","l","a","y">>, SingleLeg(<<"nbsp">>, BAYERN, 0, 1)),
    StageBlock(INTERTOTO_LABEL, <<"r","e","p","l","a","y">>, SingleLeg(AJAX_LOWER, AJAX, 0, 0)),
    StageBlock(<<"nbsp">>, <<"nbsp">>, SingleLeg(<<"nbsp">>, BAYERN, 1, 0)) }

RECURSIVE Flatten(_)
Flatten(ss) == IF ss = << >> THEN << >> ELSE Head(ss) \o Flatten(Tail(ss))

InitStages ==
    /\ years = << LAST_YEAR >>
    /\ overwrite = FALSE
    /\ files = << >>
    /\ \E n \in 1..MaxBlocks : \E blocks \in [1..n -> StageBlocks] :
         site = (LAST_YEAR :> << Flatten(blocks) >>)
    /\ SiteUp
    /\ UefaIdle
    /\ NotWalking
    /\ NoFact
    /\ cup_trace = << >>

SpecStages == InitStages /\ [][Next]_vars

-----------------------------------------------------------------------------
(* SpecWalk: a season page of two tables                                   *)

\* the number of rows of a page of SpecWalk before its last tie
MaxRows == 3

\* a row of column titles: a <th> without a header <div>, and no <td>
TitleRow == [th |-> "plain", label |-> EMPTY, tds |-> << >>]

\* a separator: one <td> that spans the table
SeparatorRow ==
    [th |-> "none", label |-> EMPTY,
     tds |-> << [text |-> <<"nbsp">>, bold |-> FALSE, colspan |-> TRUE] >>]

\* a row of one ordinary cell
OneCellRow == DataRow(1, AJAX, FALSE, BAYERN, FALSE, <<"nbsp">>, <<"nbsp">>)

\* a tie of two legs (six cells) and a match in the older layout (four cells)
TwoLegTie == DataRow(6, AJAX, TRUE, BAYERN, FALSE, ScoreText(2, 1), ScoreText(0, 2))
OldMatch  == DataRow(4, BAYERN, FALSE, AJAX, FALSE, <<"nbsp">>, <<"nbsp">>)

WalkRows ==
    { CupHeader(CL_LABEL), CupHeader(SUPER_CUP_LABEL), RoundHeader(FINAL_LABEL),
      TwoLegTie, OldMatch, TitleRow, SeparatorRow, OneCellRow }

\* the rows of a page, cut into two tables; the second table ends with a tie
InitWalk ==
    /\ years = << LAST_YEAR >>
    /\ overwrite = FALSE
    /\ files = << >>
    /\ \E n \in 1..MaxRows : \E rows \in [1..n -> WalkRows] : \E k \in 0..n :
         site = (LAST_YEAR :> << SubSeq(rows, 1, k),
                                 SubSeq(rows, k + 1, n) \o <<LaterTie>> >>)
    /\ SiteUp
    /\ UefaIdle
    /\ NotWalking
    /\ NoFact
    /\ cup_trace = << >>

SpecWalk == InitWalk /\ [][Next]_vars

-----------------------------------------------------------------------------
(* SpecCup: norm_cup_name on a bounded set of names                        *)

CupBaseNames ==
  { <<"U","E","F","A"," ","C","u","p">>,
    <<"U","E","F","A"," ","E","u","r","o","p","a"," ","L","e","a","g","u","e">>,
    <<"E","u","r","o","p","a"," ","L","e","a","g","u","e">>,
    <<"E","u","r","o","p","a"," ","C","o","n","f","e","r","e","n","c","e"," ","L","e","a","g","u","e">>,
    <<"U","E","F","A"," ","E","u","r","o","p","a"," ","C","o","n","f","e","r","e","n","c","e"," ","L","e","a","g","u","e">>,
    <<"C","h","a","m","p","i","o","n","s"," ","L","e","a","g","u","e">>,
    <<"U","E","F","A"," ","C","h","a","m","p","i","o","n","s"," ","L","e","a","g","u","e">>,
    <<"C","o","n","f","e","r","e","n","c","e"," ","L","e","a","g","u","e">>,
    <<"C","u","p"," ","W","i","n","n","e","r","s"," ","C","u","p">>,
    <<"I","n","t","e","r","t","o","t","o"," ","C","u","p">>,
    <<"S","u","p","e","r"," ","C","u","p">>,
    <<"U","E","F","A"," ","S","u","p","e","r"," ","C","u","p">>,
    <<"C","h","a","m","p","i","o","n","s"," ","L","e","a","g","u","e"," ","/"," ","U","E","F","A"," ","C","u","p">>,
    <<"C","o","n","f","e","r","e","n","c","e"," ","o","f"," ","C","h","a","m","p","i","o","n","s">>,
    <<>> }

\* each base name as written, in upper case and in lower case, bare or
\* padded with whitespace on either side
CupNameInputs ==
    { l \o c \o r :
        l \in {<<>>, <<" ">>},
        c \in UNION { {b, StrUpper(b), StrLower(b)} : b \in CupBaseNames },
        r \in {<<>>, <<" ">>, <<"nbsp">>} }

\* the pipeline's variables while only norm_cup_name is exercised
MainIdle ==
    /\ site = <<>> /\ files = <<>> /\ years = <<>> /\ overwrite = FALSE
    /\ pc = "idle" /\ to_fetch = <<>> /\ y = 0 /\ tables = <<>> /\ trs = <<>>
    /\ current_cup = EMPTY /\ current_stage = EMPTY /\ year_rows = <<>>
    /\ df = <<>> /\ dim_cups = <<>> /\ cup_map = <<>> /\ dim_stages = <<>>
    /\ stage_map_norm = <<>> /\ dim_clubs = <<>> /\ club_map = <<>>
    /\ fact = <<>> /\ err = "none"
    /\ responses = <<>> /\ requests = <<>>
    /\ UefaIdle

InitCup ==
    /\ MainIdle
    /\ \E s \in CupNameInputs : cup_trace = <<s>>

Canonicalize ==
    /\ Len(cup_trace) >= 1
    /\ Len(cup_trace) <= MaxCalls
    /\ cup_trace' = Append(cup_trace, norm_cup_name(cup_trace[Len(cup_trace)]))
    /\ UNCHANGED mainVars

NextCup == Canonicalize

SpecCup == InitCup /\ [][NextCup]_vars

-----------------------------------------------------------------------------
(* C7 *)

\* the rules as the claim words them, read on the name without its
\* surrounding whitespace
ClaimedCanonical(s) ==
    LET t  == Strip(s)
        tu == StrUpper(t)
    IN  IF Contains(tu, UEFA_CUP) \/ StartsWith(tu, EUROPA) THEN EUROPA_LEAGUE
        ELSE IF Contains(tu, CHAMPION) THEN CHAMPIONS_LEAGUE
        ELSE IF Contains(tu, CONFERENCE) THEN CONFERENCE_LEAGUE
        ELSE t

\* C7 as claimed: a name maps to EUROPA LEAGUE exactly when it contains
\* "UEFA CUP" or starts with "EUROPA"; otherwise to CHAMPIONS LEAGUE exactly
\* when it contains "CHAMPION"; otherwise to CONFERENCE LEAGUE exactly when it
\* contains "CONFERENCE"; every other name is returned unchanged
\* (case-insensitive, rules tried in this order).
C7_AsClaimed ==
    Len(cup_trace) >= 2 => cup_trace[2] = ClaimedCanonical(cup_trace[1])

\* the rules of the amended claim, on the name with surrounding whitespace removed
AmendedCanonical(s) ==
    LET t  == Strip(s)
        tu == StrUpper(t)
    IN  IF Contains(tu, UEFA_CUP) \/ Contains(tu, EUROPA_LEAGUE) \/ StartsWith(tu, EUROPA)
             THEN EUROPA_LEAGUE
        ELSE IF Contains(tu, CHAMPION) THEN CHAMPIONS_LEAGUE
        ELSE IF Contains(tu, CONFERENCE) THEN CONFERENCE_LEAGUE
        ELSE t

\* C7 amended: with surrounding whitespace removed first and letter case
\* ignored, a name maps to EUROPA LEAGUE exactly when it contains "UEFA CUP",
\* contains "EUROPA LEAGUE" or starts with "EUROPA"; otherwise to CHAMPIONS
\* LEAGUE exactly when it contains "CHAMPION"; otherwise to CONFERENCE LEAGUE
\* exactly when it contains "CONFERENCE"; every other name is returned with
\* only its surrounding whitespace removed.
C7_Canonicalization ==
    Len(cup_trace) >= 2 => cup_trace[2] = AmendedCanonical(cup_trace[1])

\* a name on which the order of the rules decides ("champions league / uefa cup"),
\* canonicalised
C7_Witness ==
    /\ Len(cup_trace) >= 2
    /\ Contains(StrUpper(cup_trace[1]), UEFA_CUP)
    /\ Contains(StrUpper(cup_trace[1]), CHAMPION)
    /\ cup_trace[2] = EUROPA_LEAGUE

(* C8 *)

\* C8: canonicalisation is idempotent: norm_cup_name(norm_cup_name(s)) =
\* norm_cup_name(s) for every name s, and each canonical name maps to itself.
C8_Idempotent ==
    /\ Len(cup_trace) >= 3 => cup_trace[3] = cup_trace[2]
    /\ (Len(cup_trace) >= 2
          /\ cup_trace[1] \in {EUROPA_LEAGUE, CHAMPIONS_LEAGUE, CONFERENCE_LEAGUE})
        => cup_trace[2] = cup_trace[1]

\* a name that is changed by the first application and kept by the second
C8_Witness ==
    /\ Len(cup_trace) >= 3
    /\ cup_trace[2] # cup_trace[1]
    /\ cup_trace[2] = CONFERENCE_LEAGUE
    /\ cup_trace[3] = cup_trace[2]

-----------------------------------------------------------------------------
(* Claims about the leg reconstruction                                     *)

\* the rows appended to year_rows by the step
NewRows == SubSeq(year_rows', Len(year_rows) + 1, Len(year_rows'))

\* the step walks a row of at least 6 cells that is no header
WalksMainRow ==
    /\ pc = "rows" /\ trs # << >>
    /\ Head(trs).th \in {"none", "plain"}
    /\ Len(Head(trs).tds) >= 6

\* the step walks a row that reaches the leg reconstruction
WalksDataRow ==
    /\ pc = "rows" /\ trs # << >>
    /\ Head(trs).th \in {"none", "plain"}
    /\ Len(Head(trs).tds) >= 4

\* the text of cell k of the row being walked ("" when the row is shorter)
Printed(k) ==
    IF k <= Len(Head(trs).tds) THEN norm_text(Head(trs).tds[k].text) ELSE EMPTY

\* score texts and the goal counts they print
KnownScores ==
    { [text |-> ScoreText(a, b), a |-> a, b |-> b] : a \in 0..MaxGoal, b \in 0..MaxGoal }
    \cup { [text |-> <<"1","ndash","0">>, a |-> 1, b |-> 0],
           [text |-> <<"0","2"," ","-"," ","1">>, a |-> 2, b |-> 1] }

\* the two candidates C1 describes for the row being walked, whose legs print
\* a-b and x-y, are among the rows the step appends, leg 1 before leg 2
EmitsBothLegs(a, b, x, yy) ==
    \E i, j \in 1..Len(NewRows) :
        /\ i < j
        /\ NewRows[i].leg_no = 1
        /\ NewRows[i].home = Printed(1) /\ NewRows[i].home_cc = Printed(2)
        /\ NewRows[i].away = Printed(3) /\ NewRows[i].away_cc = Printed(4)
        /\ NewRows[i].goals_home = IntToStr(a) /\ NewRows[i].goals_away = IntToStr(b)
        /\ NewRows[j].leg_no = 2
        /\ NewRows[j].home = Printed(3) /\ NewRows[j].home_cc = Printed(4)
        /\ NewRows[j].away = Printed(1) /\ NewRows[j].away_cc = Printed(2)
        /\ NewRows[j].goals_home = IntToStr(yy) /\ NewRows[j].goals_away = IntToStr(x)
        /\ NewRows[j].score = ScoreText(yy, x)

\* C1 as claimed: for every data row with team1=A, team2=B whose leg-1 text
\* parses as a-b and whose leg-2 text parses as x-y, a leg-1 candidate
\* (A, B, a, b) and a leg-2 candidate (B, A, y, x, score "y-x") are emitted.
C1_AsClaimed ==
    [][ WalksMainRow =>
          \A k1, k2 \in KnownScores :
              (Printed(5) = k1.text /\ Printed(6) = k2.text)
                  => EmitsBothLegs(k1.a, k1.b, k2.a, k2.b) ]_vars

\* C1 amended: for every data row with team1=A, team2=B, at least one of them
\* non-empty, whose leg-1 text parses as a-b and whose leg-2 text parses as
\* x-y, the leg-1 candidate (home=A, away=B, goals a, b) and the leg-2
\* candidate (home=B, away=A, goals y, x, score "y-x") are emitted.
C1_LegSwap ==
    [][ (WalksMainRow /\ (Printed(1) # EMPTY \/ Printed(3) # EMPTY)) =>
          \A k1, k2 \in KnownScores :
              (Printed(5) = k1.text /\ Printed(6) = k2.text)
                  => EmitsBothLegs(k1.a, k1.b, k2.a, k2.b) ]_vars

\* the row Ajax - Bayern 2-1, 0-2 has been walked: leg 1 is Ajax - Bayern 2-1
\* and leg 2 is Bayern - Ajax 2-0
C1_Witness ==
    /\ pc = "tables"
    /\ Len(year_rows) >= 2
    /\ Len(site[y][1][3].tds) >= 6
    /\ site[y][1][3].tds[5].text = ScoreText(2, 1)
    /\ site[y][1][3].tds[6].text = ScoreText(0, 2)
    /\ year_rows[1].leg_no = 1 /\ year_rows[1].home = AJAX
    /\ year_rows[1].away = BAYERN /\ year_rows[1].score = ScoreText(2, 1)
    /\ year_rows[2].leg_no = 2 /\ year_rows[2].home = BAYERN
    /\ year_rows[2].away = AJAX /\ year_rows[2].score = ScoreText(2, 0)
    /\ year_rows[2].goals_home = <<"2">> /\ year_rows[2].goals_away = <<"0">>

\* C2 as claimed: every leg-2 candidate of the candidate sequence has its
\* leg-1 candidate immediately before it, with the same year, competition and
\* stage and with home/away teams and country codes swapped; there is no
\* leg-2 candidate without its leg-1.
C2_AsClaimed ==
    \A i \in 1..Len(year_rows) :
        year_rows[i].leg_no = 2 =>
            /\ i > 1
            /\ year_rows[i - 1].leg_no = 1
            /\ year_rows[i - 1].season_page = year_rows[i].season_page
            /\ year_rows[i - 1].cup = year_rows[i].cup
            /\ year_rows[i - 1].comp_stage = year_rows[i].comp_stage
            /\ year_rows[i - 1].home = year_rows[i].away
            /\ year_rows[i - 1].away = year_rows[i].home
            /\ year_rows[i - 1].home_cc = year_rows[i].away_cc
            /\ year_rows[i - 1].away_cc = year_rows[i].home_cc

\* the two-leg winner name C5 gives the leg-1 candidate of the row being walked
ClaimedWinnerName ==
    LET b1 == Head(trs).tds[1].bold
        b2 == Head(trs).tds[3].bold
    IN  IF Printed(6) # EMPTY /\ b1 /\ ~b2 THEN Printed(1)
        ELSE IF Printed(6) # EMPTY /\ b2 /\ ~b1 THEN Printed(3)
        ELSE EMPTY

\* C5: the leg-1 candidate's two_leg_winner_name is team1 if leg-2 text is
\* present and only team1 is bold, team2 if leg-2 text is present and only
\* team2 is bold, and empty otherwise; the leg-2 candidate's is always empty.
C5_TwoLegWinnerName ==
    [][ WalksDataRow =>
          \A i \in 1..Len(NewRows) :
              /\ NewRows[i].leg_no = 1 => NewRows[i].two_leg_winner = ClaimedWinnerName
              /\ NewRows[i].leg_no = 2 => NewRows[i].two_leg_winner = EMPTY ]_vars

\* a row with only team1 bold and a second leg gave its leg-1 candidate the
\* name of team1, and its leg-2 candidate none
C5_Witness ==
    /\ Len(year_rows) >= 2
    /\ year_rows[1].leg_no = 1 /\ year_rows[1].src_bold = <<TRUE, FALSE>>
    /\ year_rows[1].two_leg_winner = AJAX
    /\ year_rows[2].leg_no = 2 /\ year_rows[2].src_bold = <<TRUE, FALSE>>
    /\ year_rows[2].two_leg_winner = EMPTY

-----------------------------------------------------------------------------
(* Claims about the fact table                                             *)

FactBuilt == pc \in {"write", "done"}

GoalsPresent(f) == IsDigits(f.goals_home) /\ IsDigits(f.goals_away)

\* C3: winner = "draw" iff both goal counts are present and equal; winner is
\* empty iff a goal count is absent; otherwise it is home_club_id when
\* goals_home > goals_away and away_club_id when goals_home < goals_away.
C3_PerLegWinner ==
    FactBuilt =>
        \A i \in 1..Len(fact) :
            LET f == fact[i]
            IN  /\ f.winner = DRAW <=>
                      (GoalsPresent(f) /\ StrToInt(f.goals_home) = StrToInt(f.goals_away))
                /\ f.winner = EMPTY <=> ~GoalsPresent(f)
                /\ (GoalsPresent(f) /\ StrToInt(f.goals_home) > StrToInt(f.goals_away))
                      => f.winner = IdText(f.home_club_id)
                /\ (GoalsPresent(f) /\ StrToInt(f.goals_home) < StrToInt(f.goals_away))
                      => f.winner = IdText(f.away_club_id)

\* the fact table holds a draw, a row without goals and a row won by the
\* away club
C3_Witness ==
    /\ FactBuilt
    /\ \E i \in 1..Len(fact) : fact[i].winner = DRAW
    /\ \E i \in 1..Len(fact) : fact[i].winner = EMPTY /\ fact[i].score # EMPTY
    /\ \E i \in 1..Len(fact) :
          /\ fact[i].away_club_id # NULL
          /\ fact[i].home_club_id # NULL
          /\ fact[i].winner = IntToStr(fact[i].away_club_id)
          /\ fact[i].goals_home = <<"0">> /\ fact[i].goals_away = <<"2">>

\* C4 as claimed: the assembly does not fail, and every winner is the id of a
\* row of the club dimension, "draw" or empty, also when home_club_id or
\* away_club_id is null.
C4_AsClaimed ==
    /\ err # "TypeError"
    /\ FactBuilt =>
          \A i \in 1..Len(fact) :
              fact[i].winner \in
                  { IntToStr(dim_clubs[k].club_id) : k \in 1..Len(dim_clubs) }
                  \cup {DRAW, EMPTY}

\* C6: two_leg_winner_club_id is non-null only if leg_number = 1 and the
\* originating table row had exactly one bold-marked team; when non-null it
\* equals home_club_id or away_club_id of the same fact row.
C6_TwoLegWinnerId ==
    FactBuilt =>
        \A i \in 1..Len(fact) :
            fact[i].two_leg_winner # NULL =>
                /\ fact[i].leg_no = 1
                /\ df[i].src_bold \in {<<TRUE, FALSE>>, <<FALSE, TRUE>>}
                /\ fact[i].two_leg_winner \in {fact[i].home_club_id, fact[i].away_club_id}

\* a leg-1 fact row of a tie whose second team alone was bold carries the id
\* of its away club, and a leg-1 row of a tie with both teams bold carries none
C6_Witness ==
    /\ FactBuilt
    /\ \E i \in 1..Len(fact) :
          /\ df[i].src_bold = <<FALSE, TRUE>> /\ fact[i].leg_no = 1
          /\ fact[i].two_leg_winner # NULL
          /\ fact[i].two_leg_winner = fact[i].away_club_id
          /\ fact[i].two_leg_winner # fact[i].home_club_id
    /\ \E i \in 1..Len(fact) :
          /\ df[i].src_bold = <<TRUE, TRUE>> /\ fact[i].leg_no = 1
          /\ i < Len(fact) /\ fact[i + 1].leg_no = 2
          /\ df[i + 1].src_bold = <<TRUE, TRUE>>
          /\ fact[i].two_leg_winner = NULL

-----------------------------------------------------------------------------
(* Claims about the competition dimension                                  *)

CupsBuilt == pc \in {"stages", "clubs", "fact", "write", "done"}

UEFA_EUROPA_LEAGUE == <<"U","E","F","A"," ","E","U","R","O","P","A"," ","L","E","A","G","U","E">>

\* the name is "UEFA Cup" or "UEFA Europa League" in some letter case, with
\* or without surrounding whitespace
IsAlias(name) == StrUpper(Strip(name)) \in {UEFA_CUP, UEFA_EUROPA_LEAGUE}

\* C9: "UEFA Cup" and "UEFA Europa League" (any letter case, surrounding
\* whitespace) both canonicalise to "EUROPA LEAGUE", so candidate rows that
\* carry either name resolve to competition_id 2 in the fact table.
C9_AliasesShareId ==
    /\ CupsBuilt =>
          \A i \in 1..Len(df) :
              IsAlias(df[i].cup) => df[i].cup_norm_kes = EUROPA_LEAGUE
    /\ FactBuilt =>
          \A i \in 1..Len(fact) :
              IsAlias(df[i].cup) =>
                  /\ fact[i].cup_id = 2
                  /\ \E k \in 1..Len(dim_cups) :
                        dim_cups[k] = [cup_id |-> 2, cup_kes |-> EUROPA_LEAGUE]

\* a page printed " uefa cup " over one tie and "UEFA Europa League" over
\* another, and both fact rows carry competition 2
C9_Witness ==
    /\ FactBuilt
    /\ \E i, j \in 1..Len(fact) :
          /\ site[LAST_YEAR][1][2 * i - 1].label = <<"nbsp","u","e","f","a"," ","c","u","p"," ">>
          /\ df[j].cup = <<"U","E","F","A"," ","E","u","r","o","p","a"," ","L","e","a","g","u","e">>
          /\ df[i].cup = <<"u","e","f","a"," ","c","u","p">>
          /\ fact[i].cup_id = 2 /\ fact[j].cup_id = 2

\* the distinct non-empty canonical names of the candidate rows
CanonicalNames == { norm_cup_name(df[i].cup) : i \in 1..Len(df) } \ {EMPTY}

\* C10: CHAMPIONS LEAGUE gets id 1, EUROPA LEAGUE id 2 and CONFERENCE LEAGUE
\* id 3 exactly when the name occurs, whatever the order of discovery, and the
\* remaining distinct non-empty canonical names get the ids 4, 5, 6, ... in
\* ascending order of name (the order of Python's str).
C10_CompetitionIds ==
    CupsBuilt =>
        /\ { dim_cups[k].cup_kes : k \in 1..Len(dim_cups) } = CanonicalNames
        /\ DOMAIN cup_map = CanonicalNames
        /\ \A k \in 1..Len(dim_cups) : cup_map[dim_cups[k].cup_kes] = dim_cups[k].cup_id
        /\ \A k1, k2 \in 1..Len(dim_cups) :
              dim_cups[k1].cup_kes = dim_cups[k2].cup_kes => k1 = k2
        /\ CHAMPIONS_LEAGUE \in CanonicalNames => cup_map[CHAMPIONS_LEAGUE] = 1
        /\ EUROPA_LEAGUE \in CanonicalNames => cup_map[EUROPA_LEAGUE] = 2
        /\ CONFERENCE_LEAGUE \in CanonicalNames => cup_map[CONFERENCE_LEAGUE] = 3
        /\ LET rest == CanonicalNames \ {CHAMPIONS_LEAGUE, EUROPA_LEAGUE, CONFERENCE_LEAGUE}
           IN  \A n \in rest :
                   cup_map[n] = 3 + Cardinality({ m \in rest : m = n \/ StrLess(m, n) })

\* "Super Cup" was discovered before "Intertoto Cup" and both before the
\* Champions League: the ids are 5, 4 and 1
C10_Witness ==
    /\ CupsBuilt
    /\ Len(df) = 3
    /\ df[1].cup = <<"S","u","p","e","r"," ","C","u","p">>
    /\ df[2].cup = <<"I","n","t","e","r","t","o","t","o"," ","C","u","p">>
    /\ df[3].cup_norm_kes = CHAMPIONS_LEAGUE
    /\ cup_map[df[1].cup] = 5 /\ cup_map[df[2].cup] = 4 /\ cup_map[CHAMPIONS_LEAGUE] = 1

(* C11 *)

RESERVED_IDS == { CUP_ID_FIXED[i].cup_id : i \in 1..Len(CUP_ID_FIXED) }

\* C11: in the competition dimension no two distinct names share an id, and a
\* name that is none of the three canonical names never has the id 1, 2 or 3,
\* also when some of the canonical competitions are absent from the data.
C11_NoIdCollision ==
    CupsBuilt =>
        /\ \A k1, k2 \in 1..Len(dim_cups) :
              dim_cups[k1].cup_id = dim_cups[k2].cup_id => k1 = k2
        /\ \A n1, n2 \in DOMAIN cup_map : cup_map[n1] = cup_map[n2] => n1 = n2
        /\ \A k \in 1..Len(dim_cups) :
              dim_cups[k].cup_kes \notin FixedNames => dim_cups[k].cup_id \notin RESERVED_IDS

\* the data holds two other competitions and the Conference League, but
\* neither the Champions League nor the Europa League: ids 3, 4 and 5 are
\* given, 1 and 2 are not
C11_Witness ==
    /\ CupsBuilt
    /\ Len(dim_cups) = 3
    /\ dim_cups[1] = [cup_id |-> 3, cup_kes |-> CONFERENCE_LEAGUE]
    /\ dim_cups[2].cup_id = 4 /\ dim_cups[2].cup_kes \notin FixedNames
    /\ dim_cups[3].cup_id = 5 /\ dim_cups[3].cup_kes \notin FixedNames

-----------------------------------------------------------------------------
(* Claims about the stage dimension                                        *)

StagesBuilt == pc \in {"clubs", "fact", "write", "done"}

\* the name with its runs of whitespace collapsed to one space, its
\* surrounding whitespace removed and its letters folded to lower case
RECURSIVE CollapseSpaces(_)
CollapseSpaces(s) ==
    IF Len(s) < 2 THEN s
    ELSE IF s[1] \in Whitespace /\ s[2] \in Whitespace THEN CollapseSpaces(Tail(s))
    ELSE <<IF s[1] \in Whitespace THEN " " ELSE s[1]>> \o CollapseSpaces(Tail(s))

Folded(s) == StrLower(CollapseSpaces(Strip(s)))

\* row i of the fact resolves to the seeded stage p: its id, and through the
\* stage dimension its name and importance
ResolvesTo(i, p) ==
    /\ fact[i].comp_stage_id = p.stage_id
    /\ \E k \in 1..Len(dim_stages) :
          dim_stages[k] = [stage_id |-> p.stage_id, comp_stage_kes |-> p.comp_stage,
                           importance |-> p.importance]

\* C12 as claimed: a candidate stage name that differs from a seeded name only
\* in letter case or whitespace resolves to that seeded stage's id and
\* importance; a name that merely contains a seeded name does not resolve to
\* that seeded id.
C12_AsClaimed ==
    FactBuilt =>
        \A i \in 1..Len(df) : \A k \in 1..Len(PROVIDED_STAGE_MAPPING) :
            LET p == PROVIDED_STAGE_MAPPING[k]
            IN  /\ Folded(df[i].comp_stage) = Folded(p.comp_stage) => ResolvesTo(i, p)
                /\ (Folded(df[i].comp_stage) # Folded(p.comp_stage)
                      /\ Contains(Folded(df[i].comp_stage), Folded(p.comp_stage)))
                    => fact[i].comp_stage_id # p.stage_id

\* C12 amended: a candidate stage name that differs from a seeded name only in
\* letter case or in surrounding whitespace resolves to that seeded stage's
\* id and importance; any other name, also one that contains a seeded name or
\* differs from it in inner whitespace, does not resolve to that seeded id.
C12_StageExactMatch ==
    FactBuilt =>
        \A i \in 1..Len(df) : \A k \in 1..Len(PROVIDED_STAGE_MAPPING) :
            LET p == PROVIDED_STAGE_MAPPING[k]
            IN  IF StrLower(Strip(df[i].comp_stage)) = StrLower(Strip(p.comp_stage))
                THEN ResolvesTo(i, p)
                ELSE fact[i].comp_stage_id # p.stage_id

\* the page printed "quarter finals" over one match and "Semi Finals replay"
\* over another: the first is stage 3 of importance 3, the second is not stage 2
C12_Witness ==
    /\ FactBuilt
    /\ \E i, j \in 1..Len(df) :
          /\ df[i].comp_stage = <<"q","u","a","r","t","e","r"," ","f","i","n","a","l","s">>
          /\ fact[i].comp_stage_id = 3
          /\ dim_stages[4].stage_id = 3 /\ dim_stages[4].importance = 3
          /\ df[j].comp_stage = <<"S","e","m","i"," ","F","i","n","a","l","s"," ","r","e","p","l","a","y">>
          /\ fact[j].comp_stage_id = 21

(* C13 *)

\* the distinct non-empty stage names of the candidate rows
StageNames == { Strip(df[i].comp_stage) : i \in 1..Len(df) } \ {EMPTY}

\* two stage names match: equal up to letter case and surrounding whitespace
SameStage(s, t) == StrLower(Strip(s)) = StrLower(Strip(t))

\* the seeded names and "Winner", up to letter case and surrounding whitespace
SeededKeys ==
    { StrLower(Strip(PROVIDED_STAGE_MAPPING[k].comp_stage)) :
        k \in 1..Len(PROVIDED_STAGE_MAPPING) } \cup { <<"w","i","n","n","e","r">> }

\* the stage names of the data that match no seeded row
UnseededNames == { s \in StageNames : StrLower(Strip(s)) \notin SeededKeys }

\* of these, the names that match no name before them in ascending order
AppendedNames ==
    { s \in UnseededNames : ~\E t \in UnseededNames : SameStage(t, s) /\ StrLess(t, s) }

\* C13: the stage dimension holds the synthetic row (0, "Winner", 0) and the
\* 20 seeded rows with their ids and importances, unaltered, whether or not
\* they occur in the data; each stage name that matches no existing row is
\* appended exactly once, with importance 0 and the ids 21, 22, ... in
\* ascending order of name.
C13_StageDimension ==
    StagesBuilt =>
        /\ Len(dim_stages) = 21 + Cardinality(AppendedNames)
        /\ dim_stages[1] = [stage_id |-> 0, comp_stage_kes |-> <<"W","i","n","n","e","r">>, importance |-> 0]
        /\ Len(PROVIDED_STAGE_MAPPING) = 20
        /\ \A k \in 1..20 :
              /\ PROVIDED_STAGE_MAPPING[k].stage_id = k
              /\ dim_stages[k + 1] =
                    [stage_id |-> k,
                     comp_stage_kes |-> PROVIDED_STAGE_MAPPING[k].comp_stage,
                     importance |-> PROVIDED_STAGE_MAPPING[k].importance]
        /\ \A s \in AppendedNames :
              LET rank == Cardinality({ t \in AppendedNames : t = s \/ StrLess(t, s) })
              IN  dim_stages[21 + rank] =
                      [stage_id |-> 20 + rank, comp_stage_kes |-> s, importance |-> 0]

\* the data holds "Replay", "replay" and "Semi Finals replay": "Replay" is
\* appended as stage 21, "Semi Finals replay" as stage 22, "replay" is not
\* appended again
C13_Witness ==
    /\ StagesBuilt
    /\ \E i \in 1..Len(df) : df[i].comp_stage = <<"r","e","p","l","a","y">>
    /\ Len(dim_stages) = 23
    /\ dim_stages[22] = [stage_id |-> 21, comp_stage_kes |-> <<"R","e","p","l","a","y">>, importance |-> 0]
    /\ dim_stages[23] = [stage_id |-> 22, comp_stage_kes |-> <<"S","e","m","i"," ","F","i","n","a","l","s"," ","r","e","p","l","a","y">>,
                         importance |-> 0]

-----------------------------------------------------------------------------
(* Claims about the club dimension                                         *)

ClubsBuilt == pc \in {"fact", "write", "done"}

\* the distinct non-empty team names of the candidate rows, home and away
TeamNames ==
    ({ df[i].home : i \in 1..Len(df) } \cup { df[i].away : i \in 1..Len(df) }) \ {EMPTY}

\* C14: with N distinct non-empty team names over the home and away fields,
\* the club dimension has exactly N rows, their ids are exactly 1..N, and
\* club_id(a) < club_id(b) iff a < b in the order of the names.
C14_ClubDimension ==
    ClubsBuilt =>
        /\ Len(dim_clubs) = Cardinality(TeamNames)
        /\ { dim_clubs[k].club_name_kes : k \in 1..Len(dim_clubs) } = TeamNames
        /\ { dim_clubs[k].club_id : k \in 1..Len(dim_clubs) } = 1..Cardinality(TeamNames)
        /\ DOMAIN club_map = TeamNames
        /\ \A k \in 1..Len(dim_clubs) : club_map[dim_clubs[k].club_name_kes] = dim_clubs[k].club_id
        /\ \A a, b \in TeamNames : club_map[a] < club_map[b] <=> StrLess(a, b)

\* the rows name "ajax", "Ajax" and "Bayern", one of them as away team only,
\* and a row has no home team: three clubs, Ajax 1, Bayern 2, ajax 3
C14_Witness ==
    /\ ClubsBuilt
    /\ \E i \in 1..Len(df) : df[i].home = EMPTY
    /\ \E i \in 1..Len(df) : df[i].home = AJAX_LOWER
    /\ ~\E i \in 1..Len(df) : df[i].home = BAYERN
    /\ Len(dim_clubs) = 3
    /\ club_map[AJAX] = 1 /\ club_map[BAYERN] = 2 /\ club_map[AJAX_LOWER] = 3

-----------------------------------------------------------------------------
(* C15 *)

\* the candidate rows in every order
Reorderings(frame) ==
    { [i \in 1..Len(frame) |-> frame[f[i]]] :
         f \in { g \in [1..Len(frame) -> 1..Len(frame)] :
                    \A i, j \in 1..Len(frame) : g[i] = g[j] => i = j } }

\* the Dimension Builder has just built its three maps
DimensionsBuilt == pc = "fact"

\* C15: a run of the Dimension Builder over the same candidate rows, presented
\* in the same or in any other order, produces the competition, stage and club
\* name-to-id maps this run produced.
C15_OrderIndependent ==
    DimensionsBuilt =>
        \A g \in Reorderings(df) :
            /\ DictOf(SortById(Range(cup_rows_of(g)), "cup_id"), "cup_kes", "cup_id") = cup_map
            /\ stage_map_norm_of(dim_stages_of(g)) = stage_map_norm
            /\ DictOf(dim_clubs_of(g), "club_name_kes", "club_id") = club_map

\* three rows whose competitions and unseeded stages were discovered in
\* descending order of name
C15_Witness ==
    /\ ClubsBuilt
    /\ Len(df) = 3
    /\ df[1].comp_stage = <<"S","e","m","i"," ","F","i","n","a","l","s"," ","r","e","p","l","a","y">> /\ df[1].cup = SUPER_CUP_LABEL
    /\ df[2].comp_stage = <<"R","e","p","l","a","y">>
    /\ df[3].cup = INTERTOTO_LABEL
    /\ stage_map_norm[<<"r","e","p","l","a","y">>] = 21
    /\ stage_map_norm[<<"s","e","m","i"," ","f","i","n","a","l","s"," ","r","e","p","l","a","y">>] = 22
    /\ cup_map[INTERTOTO_LABEL] = 4 /\ cup_map[SUPER_CUP_LABEL] = 5
    /\ Cardinality(Reorderings(df)) = 6

-----------------------------------------------------------------------------
(* Claims about failures                                                   *)

\* the Fact Assembler has run: it built the fact table or it raised
AssemblyEnded == FactBuilt \/ (pc = "failed" /\ err = "TypeError")

\* the id of a name in a name-to-id map, null when the name has none
Lookup(map, name) == IF name \in DOMAIN map THEN map[name] ELSE NULL

\* C16 as claimed: the Fact Assembler drops no row: the fact table has exactly
\* one row per candidate row, in the same order, and a candidate whose
\* competition, stage or club name fails id lookup is emitted with a null in
\* that reference field.
C16_AsClaimed ==
    AssemblyEnded =>
        /\ Len(fact) = Len(df)
        /\ \A i \in 1..Len(df) :
              /\ fact[i].season_page = df[i].season_page
              /\ fact[i].home_cc = df[i].home_cc /\ fact[i].away_cc = df[i].away_cc
              /\ fact[i].score = df[i].score
              /\ fact[i].goals_home = df[i].goals_home
              /\ fact[i].goals_away = df[i].goals_away
              /\ fact[i].cup_id = Lookup(cup_map, df[i].cup_norm_kes)
              /\ fact[i].comp_stage_id = Lookup(stage_map_norm, StrLower(Strip(df[i].comp_stage)))
              /\ fact[i].home_club_id = Lookup(club_map, df[i].home)
              /\ fact[i].away_club_id = Lookup(club_map, df[i].away)

\* C17 as claimed: no input makes the run end abnormally: for every candidate
\* set, the empty set and a set without any competition name included, the
\* Dimension Builder and the Fact Assembler run to completion.
C17_AsClaimed == pc # "failed"

-----------------------------------------------------------------------------
(* Claims about the table walk                                             *)

HeaderKinds == {"cupheader", "roundheader"}

\* the step walks a row
WalksRow == pc = "rows" /\ trs # << >>

\* the table being walked, and its rows already walked
TableWalked == site[y][Len(site[y]) - Len(tables)]
WalkedOfTable == SubSeq(TableWalked, 1, Len(TableWalked) - Len(trs))

\* the rows of the page already walked, over all its tables
WalkedOfPage ==
    Flatten(SubSeq(site[y], 1, Len(site[y]) - Len(tables) - 1)) \o WalkedOfTable

\* the text of the last competition header among the rows ("" if none)
RECURSIVE LastCup(_)
LastCup(rows) ==
    IF rows = << >> THEN EMPTY
    ELSE IF rows[Len(rows)].th = "cupheader" THEN norm_text(rows[Len(rows)].label)
    ELSE LastCup(SubSeq(rows, 1, Len(rows) - 1))

\* the text of the last stage header since the last competition header
\* ("" if none)
RECURSIVE LastStage(_)
LastStage(rows) ==
    IF rows = << >> THEN EMPTY
    ELSE IF rows[Len(rows)].th = "cupheader" THEN EMPTY
    ELSE IF rows[Len(rows)].th = "roundheader" THEN norm_text(rows[Len(rows)].label)
    ELSE LastStage(SubSeq(rows, 1, Len(rows) - 1))

\* C18: a competition header sets the competition and clears the stage, a
\* stage header sets the stage and leaves the competition, headers emit no
\* candidate, and every candidate of a data row carries the competition of
\* the most recent competition header before it, the stage of the most recent
\* stage header since that competition header (empty if none) and the year.
C18_Tagging ==
    /\ [](pc = "rows" =>
            /\ current_cup = LastCup(WalkedOfPage)
            /\ current_stage = LastStage(WalkedOfPage))
    /\ [][ WalksRow =>
              LET tr == Head(trs)
              IN  /\ tr.th = "cupheader" =>
                        /\ current_cup' = norm_text(tr.label)
                        /\ current_stage' = EMPTY
                        /\ NewRows = << >>
                  /\ tr.th = "roundheader" =>
                        /\ current_stage' = norm_text(tr.label)
                        /\ current_cup' = current_cup
                        /\ NewRows = << >>
                  /\ tr.th \notin HeaderKinds =>
                        /\ current_cup' = current_cup /\ current_stage' = current_stage
                        /\ \A i \in 1..Len(NewRows) :
                              /\ NewRows[i].cup = LastCup(WalkedOfPage)
                              /\ NewRows[i].comp_stage = LastStage(WalkedOfPage)
                              /\ NewRows[i].season_page = y ]_vars

\* a page of a competition header, a stage header, a second competition
\* header and a tie: the tie's candidates carry the second competition and no
\* stage
C18_Witness ==
    /\ pc = "tables" /\ tables = << >>
    /\ Flatten(site[y]) = << CupHeader(CL_LABEL), RoundHeader(FINAL_LABEL),
                              CupHeader(SUPER_CUP_LABEL), LaterTie >>
    /\ Len(year_rows) = 2
    /\ \A i \in 1..2 :
          /\ year_rows[i].cup = SUPER_CUP_LABEL
          /\ year_rows[i].comp_stage = EMPTY
          /\ year_rows[i].season_page = LAST_YEAR

\* C19 as claimed: each table walk starts with no competition and no stage:
\* the candidates of a data row that no competition header precedes within
\* its own table carry an empty competition, and an empty stage when no stage
\* header precedes it in that table either, whatever earlier tables held.
C19_AsClaimed ==
    [][ (WalksRow /\ Head(trs).th \notin HeaderKinds
           /\ \A k \in 1..Len(WalkedOfTable) : WalkedOfTable[k].th # "cupheader") =>
          \A i \in 1..Len(NewRows) :
              /\ NewRows[i].cup = EMPTY
              /\ (\A k \in 1..Len(WalkedOfTable) : WalkedOfTable[k].th # "roundheader")
                    => NewRows[i].comp_stage = EMPTY ]_vars

\* the row emits no candidate for want of cells: no cell, one cell, or one
\* spanning separator cell
Malformed(tr) == tr.th \notin HeaderKinds /\ Len(tr.tds) < 2

RECURSIVE WithoutMalformed(_)
WithoutMalformed(rows) ==
    IF rows = << >> THEN << >>
    ELSE (IF Malformed(Head(rows)) THEN << >> ELSE <<Head(rows)>>)
         \o WithoutMalformed(Tail(rows))

\* the candidates of a walk over the rows, from the context (cup, stage)
RECURSIVE Candidates(_, _, _, _)
Candidates(rows, cup, stage, year) ==
    IF rows = << >> THEN << >>
    ELSE LET step == RowStep(Head(rows), cup, stage, year)
         IN  step.rows \o Candidates(Tail(rows), step.cup, step.stage, year)

\* C20: a row with no cells, with fewer than 2 cells, or of a single spanning
\* separator cell emits no candidate, leaves the competition and the stage
\* unchanged and does not stop the walk: the candidates of the page are those
\* of the page without its malformed rows.
C20_MalformedRows ==
    /\ [][ (WalksRow /\ Malformed(Head(trs))) =>
              /\ NewRows = << >>
              /\ current_cup' = current_cup /\ current_stage' = current_stage
              /\ pc' = "rows" /\ trs' = Tail(trs) ]_vars
    /\ []((pc = "tables" /\ tables = << >>) =>
            year_rows = Candidates(WithoutMalformed(Flatten(site[y])), EMPTY, EMPTY, y))

\* a page with a stage header, a separator, a row of column titles and a row
\* of one cell before its tie: the tie's candidates are the only ones and
\* carry the stage
C20_Witness ==
    /\ pc = "tables" /\ tables = << >>
    /\ \E r \in {TitleRow, OneCellRow} :
          Flatten(site[y]) = << RoundHeader(FINAL_LABEL), SeparatorRow, r, LaterTie >>
    /\ Len(site[y][1]) = 2
    /\ Len(year_rows) = 2
    /\ year_rows[1].comp_stage = <<"F","i","n","a","l">>
    /\ year_rows[2].comp_stage = <<"F","i","n","a","l">>

-----------------------------------------------------------------------------
(* SpecRun: a run over a range of years, with per-year files of an earlier *)
(* run on disk and with requests that fail                                 *)

\* the years of the model are the MaxYears years from LAST_YEAR - 1 on
MaxYears == 3

YearPool == (LAST_YEAR - 1)..(LAST_YEAR - 2 + MaxYears)

SupportedPool == { yr \in YearPool : SupportedYear(yr) }

\* list(range(lo, hi + 1))
RangeOf(lo, hi) == [i \in 1..(hi - lo + 1) |-> lo + i - 1]

\* the file an earlier run wrote for the year
OldFile(yr) ==
    save_per_year_csv(
        Candidates(<< CupHeader(INTERTOTO_LABEL), SingleLeg(BAYERN, AJAX, 2, 2) >>,
                   EMPTY, EMPTY, yr))

\* a page that ends inside a stage of a competition, a page of another
\* competition, and a page whose only table has no header
PageHeaded == << << CupHeader(CL_LABEL), RoundHeader(FINAL_LABEL), TwoLegTie >> >>
PageSuper  == << << CupHeader(SUPER_CUP_LABEL) >>, << SingleLeg(AJAX_LOWER, BAYERN, 0, 1) >> >>
PageBare   == << << OldMatch >> >>

\* what the site holds for a year and how it answers the requests for it
Servers ==
    { [page |-> PageHeaded, responses |-> <<"ok", "ok", "ok">>],
      [page |-> PageSuper,  responses |-> <<"http_error", "exception", "ok">>],
      [page |-> PageBare,   responses |-> <<"exception", "ok", "http_error">>],
      [page |-> PageHeaded, responses |-> <<"exception", "http_error", "http_error">>],
      [page |-> PageBare,   responses |-> <<"ok", "exception", "exception">>] }

InitRun ==
    /\ \E lo \in YearPool : \E hi \in YearPool :
          lo <= hi /\ years = RangeOf(lo, hi)
    /\ overwrite \in BOOLEAN
    /\ \E present \in SUBSET YearPool : files = [yr \in present |-> OldFile(yr)]
    /\ \E srv \in [SupportedPool -> Servers] :
          /\ site = [yr \in SupportedPool |-> srv[yr].page]
          /\ responses = [yr \in SupportedPool |-> srv[yr].responses]
    /\ requests = << >>
    /\ UefaIdle
    /\ NotWalking
    /\ NoFact
    /\ cup_trace = << >>

SpecRun == InitRun /\ [][Next]_vars

-----------------------------------------------------------------------------
(* Claims about the run as a whole                                         *)

\* the pages are still being fetched and parsed
Parsing == pc \in {"start", "loop", "tables", "rows"}

\* the position of main: the fetch loop, the merge, then the three builders
\* and the assembler, one after the other
Phase ==
    [ start |-> 0, loop |-> 1, tables |-> 1, rows |-> 1, cups |-> 2, stages |-> 3,
      clubs |-> 4, fact |-> 5, write |-> 6, done |-> 7, failed |-> 8 ]

\* the years whose page this run has fetched
FetchedYears == { yr \in Range(requests) : FetchSucceeds(yr) }

\* the rows of a page, as its per-year file holds them
PageFile(yr) == save_per_year_csv(Candidates(Flatten(site[yr]), EMPTY, EMPTY, yr))

\* the rows of all the per-year files, in ascending order of year
AllCandidates ==
    LET ys == SortedYears(DOMAIN files)
    IN  Flatten([i \in 1..Len(ys) |-> read_csv(files[ys[i]])])

\* the frame without the column the Dimension Builder adds to it
Bare(frame) ==
    [i \in 1..Len(frame) |->
        [f \in DOMAIN frame[i] \ {"cup_norm_kes"} |-> frame[i][f]]]

\* the candidate set is complete: no page is left to fetch, the rows of every
\* page fetched are in its per-year file, and df holds the rows of all files
CompleteSet ==
    /\ to_fetch = << >>
    /\ \A yr \in FetchedYears : yr \in DOMAIN files /\ files[yr] = PageFile(yr)
    /\ Bare(df) = AllCandidates

\* the three maps exist and are those of the complete candidate set
MapsExist ==
    /\ CompleteSet
    /\ dim_cups # << >> /\ dim_stages # << >>
    /\ cup_map = DictOf(SortById(Range(cup_rows_of(df)), "cup_id"), "cup_kes", "cup_id")
    /\ stage_map_norm = stage_map_norm_of(dim_stages_of(df))
    /\ club_map = DictOf(dim_clubs_of(df), "club_name_kes", "club_id")

\* C21: no competition, stage or club id is assigned before every page of the
\* run is parsed and merged; each of the three maps is computed once, from the
\* complete candidate set (main never returns to a builder it has left); the
\* fact rows are assembled only after all three maps exist.
C21_SingleBarrier ==
    /\ [](Phase[pc] <= Phase["cups"] =>
            /\ dim_cups = << >> /\ cup_map = << >>
            /\ dim_stages = << >> /\ stage_map_norm = << >>
            /\ dim_clubs = << >> /\ club_map = << >>
            /\ fact = << >>)
    /\ [](Parsing => df = << >>)
    /\ [][ /\ (cup_map' # cup_map \/ dim_cups' # dim_cups) =>
                (pc = "cups" /\ CompleteSet)
           /\ (stage_map_norm' # stage_map_norm \/ dim_stages' # dim_stages) =>
                (pc = "stages" /\ CompleteSet)
           /\ (club_map' # club_map \/ dim_clubs' # dim_clubs) =>
                (pc = "clubs" /\ CompleteSet)
           /\ fact' # fact => (pc = "fact" /\ MapsExist)
           /\ (pc' # pc /\ Phase[pc] >= Phase["cups"]) => Phase[pc'] > Phase[pc]
           /\ Phase[pc'] >= Phase[pc] ]_vars

\* two pages were fetched and a third year was on disk: the fact holds the
\* rows of the three years and the competitions of all of them have ids
C21_Witness ==
    /\ pc = "done"
    /\ FetchedYears = {LAST_YEAR - 1, LAST_YEAR}
    /\ DOMAIN files = {LAST_YEAR - 1, LAST_YEAR, LAST_YEAR + 1}
    /\ site[LAST_YEAR - 1] = PageSuper /\ site[LAST_YEAR] = PageHeaded
    /\ Len(fact) = Len(PageFile(LAST_YEAR - 1)) + Len(PageFile(LAST_YEAR)) + Len(OldFile(LAST_YEAR + 1))
    /\ DOMAIN cup_map = {CHAMPIONS_LEAGUE, SUPER_CUP_LABEL, INTERTOTO_LABEL}
    /\ MapsExist

(* C22 *)

\* s is an initial part of t
IsPrefix(s, t) == Len(s) <= Len(t) /\ SubSeq(t, 1, Len(s)) = s

\* the step starts the walk of the page just fetched
StartsPage == pc = "loop" /\ pc' = "tables"

\* the step is part of the parsing of the page of year y
ParsesPage == pc \in {"tables", "rows"}

\* C22: the walk of every page starts with no competition and no stage,
\* whatever earlier pages held, and parsing a page only appends candidates:
\* the rows already made from the page stay as they are, in their order, the
\* per-year file of every other year stays as it is, and the file written for
\* the page holds the candidates of the page walked on its own.
C22_PageIsolation ==
    [][ /\ StartsPage =>
              /\ current_cup' = EMPTY /\ current_stage' = EMPTY
              /\ year_rows' = << >>
              /\ files' = files
        /\ ParsesPage =>
              /\ IsPrefix(year_rows, year_rows')
              /\ \A z \in DOMAIN files \ {y} : z \in DOMAIN files' /\ files'[z] = files[z]
              /\ files' # files =>
                    (y \in DOMAIN files' /\ files'[y] = PageFile(y)
                       /\ files'[y] = save_per_year_csv(year_rows)) ]_vars

\* a page that ended inside the final of the Champions League was parsed
\* before a page without any header: the rows of the second page carry no
\* competition, and the file of the first page is as it was written
C22_Witness ==
    /\ pc = "loop" /\ to_fetch = << >> /\ y = LAST_YEAR
    /\ site[LAST_YEAR - 1] = PageHeaded /\ site[LAST_YEAR] = PageBare
    /\ FetchedYears = {LAST_YEAR - 1, LAST_YEAR}
    /\ requests[1] = LAST_YEAR - 1
    /\ files[LAST_YEAR - 1] = PageFile(LAST_YEAR - 1)
    /\ files[LAST_YEAR - 1][1].cup = CL_LABEL
    /\ files[LAST_YEAR - 1][1].comp_stage = <<"F","i","n","a","l">>
    /\ Len(files[LAST_YEAR]) = 1
    /\ files[LAST_YEAR][1].cup = EMPTY /\ files[LAST_YEAR][1].comp_stage = EMPTY

-----------------------------------------------------------------------------
(* Claims about the rows a data row emits                                  *)

\* the positions among the rows the step appends that hold a candidate of leg n
LegsEmitted(n) == { i \in 1..Len(NewRows) : NewRows[i].leg_no = n }

\* C23: a data row emits a leg-1 candidate iff team1 or team2 is non-empty,
\* and a leg-2 candidate iff its leg-2 text is non-empty: 0, 1 or 2
\* candidates, at most one of each leg, the leg-1 candidate before the leg-2
\* candidate.
C23_EmissionRule ==
    [][ WalksDataRow =>
          /\ LegsEmitted(1) # {} <=> (Printed(1) # EMPTY \/ Printed(3) # EMPTY)
          /\ LegsEmitted(2) # {} <=> Printed(6) # EMPTY
          /\ Len(NewRows) \in {0, 1, 2}
          /\ LegsEmitted(1) \cup LegsEmitted(2) = 1..Len(NewRows)
          /\ Cardinality(LegsEmitted(1)) <= 1 /\ Cardinality(LegsEmitted(2)) <= 1
          /\ \A i \in LegsEmitted(1) : \A j \in LegsEmitted(2) : i < j
          /\ IsPrefix(year_rows, year_rows') ]_vars

\* a row with no first team, a second team and a postponed second leg was
\* walked: it emitted the leg-1 candidate and then the leg-2 candidate
C23_Witness ==
    /\ pc = "rows" /\ Len(trs) = 1
    /\ Len(site[y][1][3].tds) >= 6
    /\ norm_text(site[y][1][3].tds[1].text) = EMPTY
    /\ site[y][1][3].tds[6].text = <<"p",".","p",".">>
    /\ Len(year_rows) = 2
    /\ year_rows[1].leg_no = 1 /\ year_rows[1].home = EMPTY /\ year_rows[1].away = BAYERN
    /\ year_rows[2].leg_no = 2 /\ year_rows[2].home = BAYERN /\ year_rows[2].away = EMPTY

-----------------------------------------------------------------------------
(* SpecScores: a data row whose score cells hold texts of many shapes      *)

\* the text of a score cell and the numbers it prints (absent: no score of
\* the form int, hyphen or en-dash, int)
ScoreCases ==
    { [cell |-> <<"2","-","1">>,                     a |-> 2, b |-> 1],
      [cell |-> <<"1","ndash","0">>,                 a |-> 1, b |-> 0],
      [cell |-> <<"nbsp","0"," ","-"," ","2"," ">>,  a |-> 0, b |-> 2],
      [cell |-> <<"0","2","-","1","0">>,             a |-> 2, b |-> 10],
      [cell |-> <<"nbsp">>,                          a |-> NULL, b |-> NULL],
      [cell |-> <<"p",".","p",".">>,                 a |-> NULL, b |-> NULL],
      [cell |-> <<"1","-">>,                         a |-> NULL, b |-> NULL],
      [cell |-> <<"-","1">>,                         a |-> NULL, b |-> NULL],
      [cell |-> <<"1","-","-","0">>,                 a |-> NULL, b |-> NULL],
      [cell |-> <<"1","-","0"," ","a","e","t">>,     a |-> NULL, b |-> NULL],
      [cell |-> <<"1"," ","0">>,                     a |-> NULL, b |-> NULL],
      [cell |-> <<"1","/","0">>,                     a |-> NULL, b |-> NULL],
      [cell |-> <<"3">>,                             a |-> NULL, b |-> NULL] }

\* one season page of one table: a competition header, a stage header, a row
\* of five or six cells with any two of these score texts, and a later tie
InitScores ==
    /\ years = << LAST_YEAR >>
    /\ overwrite = FALSE
    /\ files = << >>
    /\ \E n \in {5, 6} : \E t1 \in Team1Texts : \E k1 \in ScoreCases : \E k2 \in ScoreCases :
         site = (LAST_YEAR :> << << CupHeader(CL_LABEL), RoundHeader(FINAL_LABEL),
                                    DataRow(n, t1, FALSE, BAYERN, TRUE, k1.cell, k2.cell),
                                    LaterTie >> >>)
    /\ SiteUp
    /\ UefaIdle
    /\ NotWalking
    /\ NoFact
    /\ cup_trace = << >>

SpecScores == InitScores /\ [][Next]_vars

(* C24 *)

\* the case of the score cell k of the row being walked
CaseOf(k) ==
    IF k <= Len(Head(trs).tds)
    THEN CHOOSE c \in ScoreCases : c.cell = Head(trs).tds[k].text
    ELSE [cell |-> EMPTY, a |-> NULL, b |-> NULL]

\* the row being walked is the row under test
WalksScoreRow == WalksDataRow /\ Len(trs) = 2

\* C24: a score text that is not of the form int, hyphen or en-dash, int does
\* not keep the candidate of its leg from being emitted: the candidate has
\* neither goals_home nor goals_away and keeps the text of the cell as its
\* score; a leg-2 text a-b that parses gives the leg-2 candidate the score
\* "b-a", the swapped numbers joined by a hyphen.
C24_UnparseableScore ==
    [][ WalksScoreRow =>
          /\ LegsEmitted(1) # {} <=> (Printed(1) # EMPTY \/ Printed(3) # EMPTY)
          /\ LegsEmitted(2) # {} <=> Printed(6) # EMPTY
          /\ \A i \in LegsEmitted(1) :
                CaseOf(5).a = NULL =>
                    /\ NewRows[i].goals_home = EMPTY /\ NewRows[i].goals_away = EMPTY
                    /\ NewRows[i].score = Printed(5)
          /\ \A j \in LegsEmitted(2) :
                IF CaseOf(6).a = NULL
                THEN /\ NewRows[j].goals_home = EMPTY /\ NewRows[j].goals_away = EMPTY
                     /\ NewRows[j].score = Printed(6)
                ELSE NewRows[j].score =
                         IntToStr(CaseOf(6).b) \o <<"-">> \o IntToStr(CaseOf(6).a) ]_vars

\* the row printed "1-0 aet" for leg 1 and "02-10" for leg 2: leg 1 has no
\* goals and the score "1-0 aet", leg 2 has the score "10-2"
C24_Witness ==
    /\ pc = "rows" /\ Len(trs) = 1
    /\ Len(year_rows) = 2
    /\ year_rows[1].leg_no = 1 /\ year_rows[1].score = <<"1","-","0"," ","a","e","t">>
    /\ year_rows[1].goals_home = EMPTY /\ year_rows[1].goals_away = EMPTY
    /\ year_rows[2].leg_no = 2 /\ year_rows[2].score = <<"1","0","-","2">>
    /\ site[y][1][3].tds[6].text = <<"0","2","-","1","0">>

-----------------------------------------------------------------------------
(* C25 *)

\* the cells of the row, with empty cells added up to six
Padded(tds) ==
    tds \o [k \in 1..(6 - Len(tds)) |-> [text |-> EMPTY, bold |-> FALSE, colspan |-> FALSE]]

\* the step walks a row of the older layout: 4 or 5 cells
WalksFallbackRow == WalksDataRow /\ Len(Head(trs).tds) \in {4, 5}

\* C25: a row of 4 or 5 cells is read with the columns of the 6-cell layout
\* (team1, its country, team2, its country, then the leg-1 score if there is
\* a fifth cell): what it emits is what the 6-cell path emits for the same
\* row padded with empty cells: at most one candidate, of leg 1, never one of
\* leg 2, and with an empty two_leg_winner_name.
C25_FallbackEquivalence ==
    [][ WalksFallbackRow =>
          /\ NewRows = MainRow(Padded(Head(trs).tds), current_cup, current_stage, y)
          /\ Len(NewRows) <= 1
          /\ \A i \in 1..Len(NewRows) :
                /\ NewRows[i].leg_no = 1
                /\ NewRows[i].two_leg_winner = EMPTY
                /\ NewRows[i].home = Printed(1) /\ NewRows[i].home_cc = Printed(2)
                /\ NewRows[i].away = Printed(3) /\ NewRows[i].away_cc = Printed(4)
                /\ NewRows[i].score = Printed(5) ]_vars

\* a row of five cells, its first team in bold and its score 2-1, was walked:
\* it gave one leg-1 candidate with the goals 2 and 1 and no two-leg winner
C25_Witness ==
    /\ pc = "rows" /\ Len(trs) = 1
    /\ Len(site[y][1][3].tds) = 5
    /\ Len(year_rows) = 1
    /\ year_rows[1].leg_no = 1 /\ year_rows[1].two_leg_winner = EMPTY
    /\ year_rows[1].src_bold = <<TRUE, FALSE>>
    /\ year_rows[1].home = AJAX /\ year_rows[1].away_cc = <<"G","e","r">>
    /\ year_rows[1].score = ScoreText(2, 1)
    /\ year_rows[1].goals_home = <<"2">> /\ year_rows[1].goals_away = <<"1">>

-----------------------------------------------------------------------------
(* C26 *)

\* the three states of the context, and the state outside them
NoCompetition(cup, stage) == cup = EMPTY /\ stage = EMPTY
InCompetition(cup, stage) == cup # EMPTY /\ stage = EMPTY
InStage(cup, stage)       == cup # EMPTY /\ stage # EMPTY
StageAlone(cup, stage)    == cup = EMPTY /\ stage # EMPTY

\* C26 as claimed: after any sequence of header and data rows the context is
\* in one of the states no-competition, in-competition and in-stage: a
\* context with a stage and without a competition is never reached, and no
\* candidate row is tagged that way.
C26_AsClaimed ==
    /\ ~StageAlone(current_cup, current_stage)
    /\ \/ NoCompetition(current_cup, current_stage)
       \/ InCompetition(current_cup, current_stage)
       \/ InStage(current_cup, current_stage)
    /\ \A i \in 1..Len(year_rows) : ~StageAlone(year_rows[i].cup, year_rows[i].comp_stage)

-----------------------------------------------------------------------------
(* C27 *)

\* the reference id is null exactly when the name is empty after trimming,
\* and otherwise it is the id of a row of the dimension that carries the name
\* (names compared by same)
Refers(id, name, dim, idf, namef, same(_, _)) ==
    IF Strip(name) = EMPTY THEN id = NULL
    ELSE /\ id # NULL
         /\ \E k \in 1..Len(dim) : dim[k][idf] = id /\ same(dim[k][namef], name)

SameCup(d, n)  == d = norm_cup_name(n)
SameClub(d, n) == d = Strip(n)

\* C27: in every fact row each non-null competition, stage, home club and
\* away club id is the id of a row of the dimension built in the same run,
\* the row of the candidate's name; a reference is null only when that name
\* is empty after trimming, and every non-empty name resolves.
C27_ReferentialIntegrity ==
    FactBuilt =>
        /\ Len(fact) = Len(df)
        /\ \A i \in 1..Len(fact) :
              /\ Refers(fact[i].cup_id, df[i].cup, dim_cups, "cup_id", "cup_kes", SameCup)
              /\ Refers(fact[i].comp_stage_id, df[i].comp_stage, dim_stages,
                        "stage_id", "comp_stage_kes", SameStage)
              /\ Refers(fact[i].home_club_id, df[i].home, dim_clubs,
                        "club_id", "club_name_kes", SameClub)
              /\ Refers(fact[i].away_club_id, df[i].away, dim_clubs,
                        "club_id", "club_name_kes", SameClub)
        /\ \A k1, k2 \in 1..Len(dim_cups) : dim_cups[k1].cup_id = dim_cups[k2].cup_id => k1 = k2
        /\ \A k1, k2 \in 1..Len(dim_stages) :
              dim_stages[k1].stage_id = dim_stages[k2].stage_id => k1 = k2
        /\ \A k1, k2 \in 1..Len(dim_clubs) :
              dim_clubs[k1].club_id = dim_clubs[k2].club_id => k1 = k2

\* the fact holds a row without home club whose competition, stage (one
\* appended to the seeded stages) and away club resolve, and a row whose
\* competition and stage are both null
C27_Witness ==
    /\ FactBuilt
    /\ \E i \in 1..Len(fact) :
          /\ fact[i].home_club_id = NULL /\ df[i].home = EMPTY
          /\ fact[i].away_club_id # NULL /\ fact[i].cup_id # NULL
          /\ fact[i].comp_stage_id > Len(PROVIDED_STAGE_MAPPING)
    /\ \E j \in 1..Len(fact) :
          /\ fact[j].cup_id = NULL /\ fact[j].comp_stage_id = NULL
          /\ df[j].cup = EMPTY /\ df[j].comp_stage = EMPTY
    /\ \E k \in 1..Len(fact) : fact[k].comp_stage_id = 3 /\ fact[k].cup_id = 1

-----------------------------------------------------------------------------
(* UEFAClubData.py: the club coefficients of the UEFA API, cached per year  *)
(*                                                                         *)
(* site[yr] is the API's member list of the season, cut into its pages;    *)
(* responses[yr][k] is the outcome of the k-th request sent for the year.  *)
(* A member is [id, associationId, displayName, logoUrl, competition,      *)
(* seasonRankings, overall]; displayOfficialName, displayTeamCode,         *)
(* mediumLogoUrl and numberOfMatches are handled like their neighbours     *)
(* and left out.  Coefficients are whole numbers.                          *)

PAGE_SIZE == 200
MAX_RETRIES == 3

\* the outcomes of one session.get of get_members_page: a JSON answer, a
\* status >= 500 or 429, a requests.RequestException (raised by the request
\* or by raise_for_status on another error status)
ApiOutcomes == {"ok", "busy", "exception"}

\* None where a text is expected
NONE == <<"None">>

\* lines 63-70 and 72-73
to_float(v) == IF v = NULL THEN 0 ELSE v
safe_str(v) == IF v = NONE THEN EMPTY ELSE v

\* lines 75-79
_OFFICIAL ==
    ( <<"u","e","f","a"," ","c","o","n","f","e","r","e","n","c","e"," ","l","e","a","g","u","e">> :> 1 ) @@
    ( <<"u","e","f","a"," ","e","u","r","o","p","a"," ","l","e","a","g","u","e">> :> 2 ) @@
    ( <<"u","e","f","a"," ","c","h","a","m","p","i","o","n","s"," ","l","e","a","g","u","e">> :> 3 )

\* lines 81-82
_norm(s) == StrLower(CollapseSpaces(Strip(s)))

\* lines 84-87
map_tournament_id(name) ==
    IF name = NONE \/ name = EMPTY THEN 0
    ELSE IF _norm(name) \in DOMAIN _OFFICIAL THEN _OFFICIAL[_norm(name)] ELSE 0

\* the page the API returns for a page number (line 108: no members past
\* the last page)
ApiPage(pages, page) == IF page <= Len(pages) THEN pages[page] ELSE << >>

\* get_members_page (lines 89-114) from its attempt-th attempt on, when k
\* requests were already sent for the year.  ok: members are returned
\* (FALSE: the last error is raised); sent: requests sent for the year.
RECURSIVE get_members_page(_, _, _, _, _)
get_members_page(resps, pages, page, k, attempt) ==
    IF attempt > MAX_RETRIES THEN [ok |-> FALSE, members |-> << >>, sent |-> k]
    ELSE IF resps[k + 1] = "ok"
         THEN [ok |-> TRUE, members |-> ApiPage(pages, page), sent |-> k + 1]
         ELSE get_members_page(resps, pages, page, k + 1, attempt + 1)

\* mutant: a page is requested once
get_members_page_once(resps, pages, page, k, attempt) ==
    IF resps[k + 1] = "ok"
    THEN [ok |-> TRUE, members |-> ApiPage(pages, page), sent |-> k + 1]
    ELSE [ok |-> FALSE, members |-> << >>, sent |-> k + 1]

\* fetch_year_clubs (lines 116-127) from page number page on
RECURSIVE fetch_year_clubs(_, _, _, _, _)
fetch_year_clubs(resps, pages, page, k, out) ==
    LET r == get_members_page(resps, pages, page, k, 1)
    IN  IF ~r.ok THEN [ok |-> FALSE, members |-> << >>, sent |-> r.sent]
        ELSE IF r.members = << >> THEN [ok |-> TRUE, members |-> out, sent |-> r.sent]
        ELSE IF Len(r.members) < PAGE_SIZE
             THEN [ok |-> TRUE, members |-> out \o r.members, sent |-> r.sent]
             ELSE fetch_year_clubs(resps, pages, page + 1, r.sent, out \o r.members)

\* find_season_row (lines 129-133): NoRow (None) when the season has no row
NoRow == [seasonYear |-> NULL, totalValue |-> NULL]

RECURSIVE find_season_row(_, _)
find_season_row(rankings, year) ==
    IF rankings = << >> THEN NoRow
    ELSE IF Head(rankings).seasonYear = year THEN Head(rankings)
    ELSE find_season_row(Tail(rankings), year)

\* a dict is [vals, pos]: its values in insertion order, and the place of
\* each key among them
EmptyDict == [vals |-> << >>, pos |-> << >>]

\* d[rec[keyf]] = rec: a known key keeps its place
DictSet(d, keyf, rec) ==
    IF rec[keyf] \in DOMAIN d.pos
    THEN [vals |-> [d.vals EXCEPT ![d.pos[rec[keyf]]] = rec], pos |-> d.pos]
    ELSE [vals |-> Append(d.vals, rec),
          pos  |-> d.pos @@ (rec[keyf] :> (Len(d.vals) + 1))]

\* DictSet for recs[lo], ..., recs[hi] in turn.  The range is halved and the
\* first half computed before the second is entered, which keeps the
\* evaluation shallow; the order of the insertions is that of recs.
RECURSIVE DictSetEach(_, _, _, _, _)
DictSetEach(d, keyf, recs, lo, hi) ==
    IF lo > hi THEN d
    ELSE IF lo = hi THEN DictSet(d, keyf, recs[lo])
    ELSE LET half == DictSetEach(d, keyf, recs, lo, (lo + hi) \div 2)
         IN  IF Len(half.vals) >= Len(d.vals)
             THEN DictSetEach(half, keyf, recs, (lo + hi) \div 2 + 1, hi)
             ELSE half

\* the values of the dict whose values were vals after the insertion of recs
DictUpdate(vals, keyf, recs) ==
    DictSetEach(EmptyDict, keyf, vals \o recs, 1, Len(vals) + Len(recs)).vals

\* lines 216-258: the loop over the members of the year.  st is
\* [logos, clubs, details, per_year]; entries without id are skipped.
DetailsRow(e, yr) ==
    LET srow == find_season_row(e.seasonRankings, yr)
        tid  == map_tournament_id(e.competition)
    IN  [ season |-> yr, club_id |-> safe_str(e.id),
          associationId |-> safe_str(e.associationId),
          tournament_id |-> tid,
          season_points |-> IF srow # NoRow /\ tid # 0
                            THEN to_float(srow.totalValue) ELSE 0,
          overall_totalValue |-> to_float(e.overall) ]

ProcessMembers(st, members, yr) ==
    LET kept == SelectSeq(members, LAMBDA e : safe_str(e.id) # EMPTY)
        rows == [i \in 1..Len(kept) |-> DetailsRow(kept[i], yr)]
    IN  [ logos    |-> DictUpdate(st.logos, "id",
                          [i \in 1..Len(kept) |->
                              [id |-> safe_str(kept[i].id),
                               logoUrl |-> safe_str(kept[i].logoUrl)]]),
          clubs    |-> DictUpdate(st.clubs, "club_id",
                          [i \in 1..Len(kept) |->
                              [club_id |-> safe_str(kept[i].id),
                               associationId |-> safe_str(kept[i].associationId),
                               displayName |-> safe_str(kept[i].displayName)]]),
          details  |-> st.details \o rows,
          per_year |-> st.per_year \o rows ]

\* the files of DIR_RAW are named by their kind and their year
MembersJson(yr) == <<"members", yr>>
DetailsCsv(yr)  == <<"club_details", yr>>
ClubDimCsv(yr)  == <<"club_dim", yr>>
LogosCsv(yr)    == <<"club_logos", yr>>

\* the content of a members_{year}.json: the list json.load returns, or
\* a text that json.load rejects
Json(members) == [loads |-> TRUE, members |-> members]
UNREADABLE == [loads |-> FALSE, members |-> << >>]

\* lines 261-280: a per-year CSV is written only where none exists
WriteIfAbsent(disk, name, rows) == disk @@ (name :> rows)

\* mutant: the per-year CSV is written anew
WriteIfAbsent_anew(disk, name, rows) == (name :> rows) @@ disk

\* lines 154-157
cached_years_of(yrs, disk) == { yr \in Range(yrs) : MembersJson(yr) \in DOMAIN disk }

\* line 159
newest_of(yrs) == MaxOf(Range(yrs))

\* lines 173-181: the cached JSON of the year is loaded
loaded_from_cache_of(all, yr, disk) ==
    ~all /\ MembersJson(yr) \in DOMAIN disk /\ disk[MembersJson(yr)].loads

\* mutant: a year whose cache loaded is not fetched, the newest included
need_fetch_cached(all, yr, newest, loaded) == all \/ ~loaded

\* lines 184-194
need_fetch_of(all, yr, newest, loaded) ==
    IF all THEN TRUE
    ELSE IF yr = newest THEN TRUE
    ELSE ~loaded

\* lines 146-165
UefaStart ==
    /\ pc = "uefa_start"
    /\ logos_map' = << >> /\ clubs_map' = << >> /\ details_rows' = << >>
    /\ fetch_all' = (cached_years_of(years, raw_files) = {})
    /\ years_left' = years
    /\ pc' = "uefa_loop"
    /\ UNCHANGED <<site, files, years, overwrite, to_fetch, y, tables, trs,
                   current_cup, current_stage, year_rows, df, dim_cups, cup_map,
                   dim_stages, stage_map_norm, dim_clubs, club_map, fact, err,
                   cup_trace, responses, requests, raw_files, outputs>>

\* lines 167-282: one year of the loop
UefaYear ==
    /\ pc = "uefa_loop" /\ years_left # << >>
    /\ LET yr     == Head(years_left)
           loaded == loaded_from_cache_of(fetch_all, yr, raw_files)
           cached == IF loaded THEN raw_files[MembersJson(yr)].members ELSE << >>
           need   == need_fetch_of(fetch_all, yr, newest_of(years), loaded)
           got    == fetch_year_clubs(responses[yr], site[yr], 1, 0, << >>)
           failed == need /\ ~got.ok
           members == IF need THEN got.members ELSE cached
           disk1  == IF need /\ got.ok
                     THEN (MembersJson(yr) :> Json(got.members)) @@ raw_files
                     ELSE raw_files
           st     == ProcessMembers([logos |-> logos_map, clubs |-> clubs_map,
                                     details |-> details_rows, per_year |-> << >>],
                                    members, yr)
       IN  /\ y' = yr
           /\ years_left' = Tail(years_left)
           /\ requests' = IF need THEN requests \o [i \in 1..got.sent |-> yr]
                          ELSE requests
           /\ IF failed \/ members = << >>
              THEN /\ raw_files' = disk1
                   /\ UNCHANGED <<logos_map, clubs_map, details_rows>>
              ELSE /\ logos_map' = st.logos
                   /\ clubs_map' = st.clubs
                   /\ details_rows' = st.details
                   /\ raw_files' =
                        WriteIfAbsent(
                          WriteIfAbsent(
                            WriteIfAbsent(disk1, DetailsCsv(yr), st.per_year),
                            ClubDimCsv(yr), st.clubs),
                          LogosCsv(yr), st.logos)
    /\ UNCHANGED <<site, files, years, overwrite, pc, to_fetch, tables, trs,
                   current_cup, current_stage, year_rows, df, dim_cups, cup_map,
                   dim_stages, stage_map_norm, dim_clubs, club_map, fact, err,
                   cup_trace, responses, fetch_all, outputs>>

Reverse(rows) == [i \in 1..Len(rows) |-> rows[Len(rows) + 1 - i]]

\* the first row of each key, in the order of the rows
RECURSIVE KeepFirst(_, _, _, _, _)
KeepFirst(d, keyf, rows, lo, hi) ==
    IF lo > hi THEN d
    ELSE IF lo = hi
         THEN IF rows[lo][keyf] \in DOMAIN d.pos THEN d ELSE DictSet(d, keyf, rows[lo])
    ELSE LET half == KeepFirst(d, keyf, rows, lo, (lo + hi) \div 2)
         IN  IF Len(half.vals) >= Len(d.vals)
             THEN KeepFirst(half, keyf, rows, (lo + hi) \div 2 + 1, hi)
             ELSE half

\* drop_duplicates(subset=[keyf], keep="last"): of the rows of one key the
\* last stays, at its place
DropDuplicatesKeepLast(rows, keyf) ==
    Reverse(KeepFirst(EmptyDict, keyf, Reverse(rows), 1, Len(rows)).vals)

\* sorted(DIR_RAW.glob(kind_*.csv)) read and concatenated (lines 296-303,
\* 319-326)
RECURSIVE ConcatCsv(_, _, _)
ConcatCsv(kind, ys, disk) ==
    IF ys = << >> THEN << >>
    ELSE read_csv(disk[<<kind, Head(ys)>>]) \o ConcatCsv(kind, Tail(ys), disk)

YearsOfKind(kind, disk) == { n[2] : n \in { m \in DOMAIN disk : m[1] = kind } }

\* lines 295-309 and 318-332: the last known row of each key over the
\* per-year CSVs, or the rows of this run when there is no CSV
LastKnown(kind, keyf, disk, map) ==
    IF YearsOfKind(kind, disk) = {} THEN map
    ELSE DropDuplicatesKeepLast(
            ConcatCsv(kind, SortedYears(YearsOfKind(kind, disk)), disk), keyf)

\* lines 24-29
TOURNAMENT_ROWS ==
    << [tournament_id |-> 0, tournament_name |-> "No competition"],
       [tournament_id |-> 1, tournament_name |-> "UEFA Conference League"],
       [tournament_id |-> 2, tournament_name |-> "UEFA Europa League"],
       [tournament_id |-> 3, tournament_name |-> "UEFA Champions League"] >>

\* lines 284-365: the parquet files; a missing parquet engine ends the run
UefaAggregate ==
    /\ pc = "uefa_loop" /\ years_left = << >>
    /\ \E engine \in BOOLEAN :
          IF engine
          THEN /\ outputs' =
                    [ UEFA_club_details |-> details_rows,
                      UEFA_club_names   |-> LastKnown("club_dim", "club_id", raw_files, clubs_map),
                      UEFA_club_logos   |-> LastKnown("club_logos", "id", raw_files, logos_map),
                      UEFA_tournament_names |-> TOURNAMENT_ROWS ]
               /\ err' = "none"
          ELSE /\ outputs' = outputs
               /\ err' = "SystemExit"
    /\ pc' = "uefa_done"
    /\ UNCHANGED <<site, files, years, overwrite, to_fetch, y, tables, trs,
                   current_cup, current_stage, year_rows, df, dim_cups, cup_map,
                   dim_stages, stage_map_norm, dim_clubs, club_map, fact,
                   cup_trace, responses, requests, raw_files, details_rows,
                   clubs_map, logos_map, fetch_all, years_left>>

NextUefa ==
    \/ UefaStart
    \/ UefaYear
    \/ UefaAggregate

-----------------------------------------------------------------------------
(* SpecUefa: UEFAClubData.main over up to MaxSeasons seasons, with every   *)
(* state of the cache and of the API for each of them                      *)

MaxSeasons == 2

\* the last seasons of YEARS (line 17)
UEFA_LAST_YEAR == 2026
SeasonPool == (UEFA_LAST_YEAR - MaxSeasons + 1)..UEFA_LAST_YEAR

Member(id, assoc, name, logo, comp, yr, points) ==
    [ id |-> id, associationId |-> assoc, displayName |-> name, logoUrl |-> logo,
      competition |-> comp,
      seasonRankings |-> << [seasonYear |-> yr - 1, totalValue |-> points + 1],
                            [seasonYear |-> yr, totalValue |-> points] >>,
      overall |-> points + points ]

\* what the API lists for a season: two clubs and an entry without id
NewMembers(yr) ==
    << Member(<<"1">>, <<"G","E","R">>, <<"B","a","y","e","r","n">>, <<"b",".","p","n","g">>,
              <<"U","E","F","A"," ","C","h","a","m","p","i","o","n","s"," ","L","e","a","g","u","e">>,
              yr, yr - 2000),
       Member(NONE, NONE, <<"C","l","u","b">>, NONE, NONE, yr, 0),
       Member(<<"2">>, <<"N","E","D">>, <<"A","j","a","x">>, <<"a",".","p","n","g">>,
              <<"U","E","F","A"," "," ","E","u","r","o","p","a"," ","L","e","a","g","u","e"," ">>,
              yr - 1, 3) >>

\* what an earlier run cached for a season
OldMembers(yr) ==
    << Member(<<"2">>, <<"N","E","D">>, <<"A","j","a","x">>, <<"o","l","d",".","p","n","g">>,
              NONE, yr, 1) >>

\* a page of PAGE_SIZE clubs
FullPage(yr) ==
    [ i \in 1..PAGE_SIZE |->
        Member(IntToStr(i + 2), <<"G","E","R">>, <<"C","l","u","b">>, NONE, NONE, yr, 0) ]

\* the state an earlier run left: the cached JSON and the per-year CSVs
\* written from it
OldRun(yr) ==
    LET st == ProcessMembers([logos |-> << >>, clubs |-> << >>, details |-> << >>,
                              per_year |-> << >>], OldMembers(yr), yr)
    IN  (MembersJson(yr) :> Json(OldMembers(yr))) @@ (DetailsCsv(yr) :> st.per_year)
        @@ (ClubDimCsv(yr) :> st.clubs) @@ (LogosCsv(yr) :> st.logos)

\* the cache of one season: absent, left by an earlier run, or a JSON file
\* that does not load
CacheStates(yr) == { << >>, OldRun(yr), (MembersJson(yr) :> UNREADABLE) }

\* the API for one season: its pages and the outcomes of the requests
ApiServers(yr) ==
    { [ pages |-> <<NewMembers(yr)>>,
        responses |-> <<"ok", "ok", "ok", "ok", "ok", "ok">> ],
      [ pages |-> <<NewMembers(yr)>>,
        responses |-> <<"exception", "busy", "busy", "ok", "ok", "ok">> ],
      [ pages |-> <<FullPage(yr), NewMembers(yr)>>,
        responses |-> <<"ok", "busy", "ok", "ok", "ok", "ok">> ],
      [ pages |-> << >>,
        responses |-> <<"busy", "exception", "ok", "ok", "ok", "ok">> ] }

\* the API for a season that is not asked for
Unasked == [pages |-> << >>, responses |-> <<"ok", "ok", "ok", "ok", "ok", "ok">>]

\* a cache state for each season of S, merged into one directory
RECURSIVE CacheChoices(_)
CacheChoices(S) ==
    IF S = {} THEN { << >> }
    ELSE LET a == CHOOSE b \in S : TRUE
         IN  { c @@ rest : c \in CacheStates(a), rest \in CacheChoices(S \ {a}) }

\* an API state for each season of S
RECURSIVE ServerChoices(_)
ServerChoices(S) ==
    IF S = {} THEN { << >> }
    ELSE LET a == CHOOSE b \in S : TRUE
         IN  { (a :> srv) @@ rest : srv \in ApiServers(a), rest \in ServerChoices(S \ {a}) }

InitUefa ==
    /\ files = << >> /\ overwrite = FALSE
    /\ to_fetch = << >> /\ y = 0 /\ tables = << >> /\ trs = << >>
    /\ current_cup = EMPTY /\ current_stage = EMPTY /\ year_rows = << >>
    /\ df = << >> /\ dim_cups = << >> /\ cup_map = << >> /\ dim_stages = << >>
    /\ stage_map_norm = << >> /\ dim_clubs = << >> /\ club_map = << >>
    /\ fact = << >> /\ err = "none" /\ cup_trace = << >>
    /\ pc = "uefa_start"
    /\ \E lo \in SeasonPool, hi \in SeasonPool :
          /\ lo <= hi
          /\ years = RangeOf(lo, hi)
          /\ \E srv \in ServerChoices(lo..hi) :
                /\ site = [yr \in SeasonPool |->
                              IF yr \in lo..hi THEN srv[yr].pages ELSE Unasked.pages]
                /\ responses = [yr \in SeasonPool |->
                              IF yr \in lo..hi THEN srv[yr].responses
                              ELSE Unasked.responses]
    /\ raw_files \in CacheChoices(SeasonPool)
    /\ requests = << >>
    /\ details_rows = << >> /\ clubs_map = << >> /\ logos_map = << >>
    /\ fetch_all = FALSE /\ years_left = << >> /\ outputs = << >>

SpecUefa == InitUefa /\ [][NextUefa]_vars

-----------------------------------------------------------------------------
(* C28 *)

\* the steps of UEFAClubData.main
StartsUefa == pc = "uefa_start" /\ pc' = "uefa_loop"
DoesSeason == pc = "uefa_loop" /\ years_left # << >> /\ years_left' = Tail(years_left)

\* the members of a cached list that carry an id
WithId(members) == SelectSeq(members, LAMBDA e : e.id # NONE /\ e.id # EMPTY)

\* C28: the run fetches every year when no members_{YEAR}.json exists for a
\* requested year.  Otherwise a year is fetched (at least one request is
\* sent for it) iff it is the newest requested year or its cached JSON is
\* missing or does not load; every other year is loaded from its cache
\* file: no request is sent, the cache file is not rewritten, and its
\* members make the rows of the season.  A year's step leaves the cache
\* files of the other years alone.
C28_CacheFirst ==
    [][ /\ StartsUefa =>
              (fetch_all' <=> \A yr \in Range(years) : MembersJson(yr) \notin DOMAIN raw_files)
        /\ DoesSeason =>
              LET yr      == Head(years_left)
                  exists  == MembersJson(yr) \in DOMAIN raw_files
                  loads   == exists /\ raw_files[MembersJson(yr)].loads
                  sent    == Len(requests') - Len(requests)
                  fetched == sent >= 1
              IN  /\ fetch_all' = fetch_all
                  /\ SubSeq(requests', 1, Len(requests)) = requests
                  /\ \A i \in (Len(requests) + 1)..Len(requests') : requests'[i] = yr
                  /\ fetch_all => fetched
                  /\ ~fetch_all =>
                        (fetched <=> (yr = MaxOf(Range(years)) \/ ~exists \/ ~loads))
                  /\ ~fetched =>
                        /\ loads
                        /\ requests' = requests
                        /\ raw_files'[MembersJson(yr)] = raw_files[MembersJson(yr)]
                        /\ LET kept == WithId(raw_files[MembersJson(yr)].members)
                           IN  /\ Len(details_rows') = Len(details_rows) + Len(kept)
                               /\ \A i \in 1..Len(kept) :
                                     /\ details_rows'[Len(details_rows) + i].season = yr
                                     /\ details_rows'[Len(details_rows) + i].club_id = kept[i].id
                  /\ \A other \in SeasonPool \ {yr} :
                        /\ MembersJson(other) \in DOMAIN raw_files'
                              <=> MembersJson(other) \in DOMAIN raw_files
                        /\ MembersJson(other) \in DOMAIN raw_files =>
                              raw_files'[MembersJson(other)] = raw_files[MembersJson(other)]
      ]_vars

\* a run over two years with a cache for both has ended: the older year
\* was loaded from its cache without a request, its file is the one the
\* earlier run left and its club has a row; the newest year was fetched and
\* its cache rewritten
C28_Witness ==
    /\ pc = "uefa_done" /\ ~fetch_all /\ Len(years) = MaxSeasons
    /\ years[1] \notin Range(requests)
    /\ raw_files[MembersJson(years[1])] = Json(OldMembers(years[1]))
    /\ \E i \in 1..Len(details_rows) :
          details_rows[i].season = years[1] /\ details_rows[i].club_id = <<"2">>
    /\ years[Len(years)] \in Range(requests)
    /\ raw_files[MembersJson(years[Len(years)])] # Json(OldMembers(years[Len(years)]))
    /\ \E i \in 1..Len(details_rows) :
          details_rows[i].season = years[Len(years)] /\ details_rows[i].club_id = <<"1">>

-----------------------------------------------------------------------------
(* KESClubData.py: the club coefficients of the Kassiesa pages             *)
(*                                                                         *)
(* A page is a sequence of tables [header, countryline, rows].  header is  *)
(* the cells [colspan, txt] of tr.countryheader (empty: no such row);      *)
(* countryline is [present, bold, text]: the bold text and the joined      *)
(* text of the second cell of tr.countryline; rows are the other rows      *)
(* [clubline, tds], tds the texts of the cells.  Of the columns of a club  *)
(* row Pos, Club, Cup and Points are modelled; qW, qD, qL, fW, fD, fL and  *)
(* Bonus are read like Cup and Points and left out.  url_for_year and      *)
(* fetch_html (lines 131-150) are those of KESMatchData.                  *)

\* header_index_map_with_colspan (lines 69-82): the labels, a cell of
\* colspan n preceded by n - 1 empty labels
RECURSIVE HeaderLabels(_)
HeaderLabels(cells) ==
    IF cells = << >> THEN << >>
    ELSE [i \in 1..(Head(cells).colspan - 1) |-> EMPTY]
         \o << Strip(Head(cells).txt) >> \o HeaderLabels(Tail(cells))

\* lines 80-81: the 0-based index of each non-empty label, the last one of
\* a repeated label
header_index_map_with_colspan(table) ==
    LET labels == HeaderLabels(table.header)
    IN  [ lab \in { labels[i] : i \in 1..Len(labels) } \ {EMPTY} |->
            MaxOf({ i \in 1..Len(labels) : labels[i] = lab }) - 1 ]

\* iter_club_rows (lines 84-93)
iter_club_rows(table) ==
    IF \E i \in 1..Len(table.rows) : table.rows[i].clubline
    THEN SelectSeq(table.rows, LAMBDA tr : tr.clubline)
    ELSE SelectSeq(table.rows, LAMBDA tr : Len(tr.tds) >= 3)

\* the end of the run of digits that starts at s[i]
DigitRunEnd(s, i) ==
    MaxOf({ k \in i..Len(s) : \A m \in i..k : IsDigit(s[m]) })

\* the starts of the runs of digits of s
DigitRuns(s) ==
    { i \in 1..Len(s) : IsDigit(s[i]) /\ (i = 1 \/ ~IsDigit(s[i - 1])) }

MinOf(S) == CHOOSE a \in S : \A b \in S : a <= b

\* re.search(r"(\d+)\s*teams?", txt, re.I) (line 104): the number, or NULL
TEAM == <<"t","e","a","m">>

TeamsIn(txt) ==
    LET hits == { i \in DigitRuns(txt) :
                    StartsWith(StrLower(LStrip(SubSeq(txt, DigitRunEnd(txt, i) + 1, Len(txt)))),
                               TEAM) }
    IN  IF hits = {} THEN NULL
        ELSE StrToInt(SubSeq(txt, MinOf(hits), DigitRunEnd(txt, MinOf(hits))))

\* get_country_and_teams (lines 95-108)
get_country_and_teams(table) ==
    LET cl     == table.countryline
        found  == IF cl.present THEN TeamsIn(cl.text) ELSE NULL
        nclub  == Len(SelectSeq(table.rows, LAMBDA tr : tr.clubline))
    IN  [ country |-> IF cl.present THEN norm_text(cl.bold) ELSE EMPTY,
          teams   |-> IF found # NULL THEN found
                      ELSE IF nclub # 0 THEN nclub
                      ELSE Len(iter_club_rows(table)) ]

\* line 114: the default column of a field
ColumnDefaults == [Cup |-> 2, Points |-> 10]

ColumnLabels == [Cup |-> <<"C","u","p">>, Points |-> <<"P","o","i","n","t","s">>]

\* extract_row_from_tds (lines 110-129)
extract_row_from_tds(tds, hdr_idx) ==
    LET txt      == [i \in 1..Len(tds) |-> norm_text(tds[i])]
        val(i)   == IF i < Len(txt) THEN txt[i + 1] ELSE EMPTY
        get_i(k) == IF ColumnLabels[k] \in DOMAIN hdr_idx THEN hdr_idx[ColumnLabels[k]]
                    ELSE ColumnDefaults[k]
    IN  [ Pos |-> val(0), Club |-> val(1), Cup |-> val(get_i("Cup")),
          Points |-> val(get_i("Points")) ]

TOTAL == <<"t","o","t","a","l">>

\* lines 156-163: the rows of one table
RECURSIVE ClubRowsOf(_, _, _, _)
ClubRowsOf(trs_, hdr_idx, ct, year) ==
    IF trs_ = << >> THEN << >>
    ELSE LET row == extract_row_from_tds(Head(trs_).tds, hdr_idx)
         IN  (IF Len(Head(trs_).tds) < 2 THEN << >>
              ELSE IF row.Club = EMPTY \/ StartsWith(StrLower(row.Club), TOTAL) THEN << >>
              ELSE << [ year |-> year, country |-> ct.country,
                        teams_in_country |-> ct.teams, Pos |-> row.Pos,
                        Club |-> row.Club, Cup |-> row.Cup, Points |-> row.Points ] >>)
             \o ClubRowsOf(Tail(trs_), hdr_idx, ct, year)

\* parse_html_to_rows of KESClubData (lines 152-164)
RECURSIVE club_parse_html_to_rows(_, _)
club_parse_html_to_rows(page, year) ==
    IF page = << >> THEN << >>
    ELSE ClubRowsOf(iter_club_rows(Head(page)),
                    header_index_map_with_colspan(Head(page)),
                    get_country_and_teams(Head(page)), year)
         \o club_parse_html_to_rows(Tail(page), year)

\* save_per_year_csv of KESClubData (lines 166-172): the numbers are
\* written as text
club_save_per_year_csv(rows) ==
    [ i \in 1..Len(rows) |->
        [rows[i] EXCEPT !.year = IntToStr(rows[i].year),
                        !.teams_in_country = IntToStr(rows[i].teams_in_country)] ]

\* mutant: with some file present every missing year is fetched as well
kes_to_fetch_missing(yrs, ow, disk) ==
    IF ow THEN yrs
    ELSE IF SelectSeq(yrs, LAMBDA a : a \in DOMAIN disk) = << >> THEN yrs
    ELSE SelectSeq(yrs, LAMBDA a : a = MaxOf(Range(yrs)) \/ a \notin DOMAIN disk)

\* lines 183-195 of KESClubData.main and 218-230 of KESCountryData.main
kes_to_fetch(yrs, ow, disk) ==
    LET existing_years == SelectSeq(yrs, LAMBDA a : a \in DOMAIN disk)
    IN  IF ow THEN yrs
        ELSE IF existing_years = << >> THEN yrs
        ELSE << MaxOf(Range(yrs)) >>

\* lines 175-198
ClubStart ==
    /\ pc = "club_start"
    /\ to_fetch' = kes_to_fetch(years, overwrite, files)
    /\ pc' = "club_loop"
    /\ UNCHANGED <<site, files, years, overwrite, y, tables, trs, current_cup,
                   current_stage, year_rows, df, dim_cups, cup_map, dim_stages,
                   stage_map_norm, dim_clubs, club_map, fact, err, cup_trace,
                   responses, requests, uefaVars>>

\* lines 203-215: one year of the loop; the file of a fetched year is
\* always written anew
ClubYear ==
    /\ pc = "club_loop" /\ to_fetch # << >>
    /\ y' = Head(to_fetch)
    /\ to_fetch' = Tail(to_fetch)
    /\ requests' = requests \o [i \in 1..FetchYear(Head(to_fetch)).sent |-> Head(to_fetch)]
    /\ files' = IF FetchSucceeds(Head(to_fetch))
                THEN (Head(to_fetch) :>
                        club_save_per_year_csv(
                            club_parse_html_to_rows(site[Head(to_fetch)], Head(to_fetch))))
                     @@ files
                ELSE files
    /\ UNCHANGED <<site, years, overwrite, pc, tables, trs, current_cup,
                   current_stage, year_rows, df, dim_cups, cup_map, dim_stages,
                   stage_map_norm, dim_clubs, club_map, fact, err, cup_trace,
                   responses, uefaVars>>

\* lines 221-237: the final names of the fields
ClubOutputRow(r) ==
    [ year |-> r.year, country |-> r.country, teams_in_country |-> r.teams_in_country,
      Position |-> r.Pos, ClubName |-> r.Club, Cup |-> r.Cup, Points |-> r.Points ]

\* lines 218-250: the rows of all per-year files, in the order of the years
RECURSIVE ClubMergedRows(_, _)
ClubMergedRows(ys, disk) ==
    IF ys = << >> THEN << >>
    ELSE [i \in 1..Len(disk[Head(ys)]) |-> ClubOutputRow(disk[Head(ys)][i])]
         \o ClubMergedRows(Tail(ys), disk)

\* lines 217-278: the merged parquet file; a missing parquet engine ends
\* the run
ClubMerge ==
    /\ pc = "club_loop" /\ to_fetch = << >>
    /\ df' = ClubMergedRows(SortedYears(DOMAIN files), files)
    /\ \E engine \in BOOLEAN : err' = IF engine THEN "none" ELSE "SystemExit"
    /\ pc' = "club_done"
    /\ UNCHANGED <<site, files, years, overwrite, to_fetch, y, tables, trs,
                   current_cup, current_stage, year_rows, dim_cups, cup_map,
                   dim_stages, stage_map_norm, dim_clubs, club_map, fact,
                   cup_trace, responses, requests, uefaVars>>

NextClub ==
    \/ ClubStart
    \/ ClubYear
    \/ ClubMerge

-----------------------------------------------------------------------------
(* KESCountryData.py: the country ranking of the Kassiesa pages            *)
(*                                                                         *)
(* A page is a sequence of tables [header, rows]: header as above (its     *)
(* cells are th or td), rows are [cls, tds] with cls the class of the row  *)
(* ("countryline", "clubline" or "none").  A number read from a cell is    *)
(* kept as [int, frac], the digits before and after the decimal mark, or   *)
(* NoNumber; at most six digits follow the mark.  url_for_year and         *)
(* fetch_html (lines 128-146) are those of KESMatchData.                   *)

COUNTRY == <<"c","o","u","n","t","r","y">>
RANKING == <<"r","a","n","k","i","n","g">>
RANK    == <<"r","a","n","k">>

\* next((i for i, lab in enumerate(labels) if ...), None), 0-based
FirstIndex(labels, Test(_)) ==
    LET hits == { i \in 1..Len(labels) : labels[i] # EMPTY /\ Test(labels[i]) }
    IN  IF hits = {} THEN NULL ELSE MinOf(hits) - 1

\* iter_country_rows (lines 77-86)
iter_country_rows(table) ==
    IF \E i \in 1..Len(table.rows) : table.rows[i].cls = "countryline"
    THEN SelectSeq(table.rows, LAMBDA tr : tr.cls = "countryline")
    ELSE SelectSeq(table.rows, LAMBDA tr : tr.cls # "clubline" /\ Len(tr.tds) >= 3)

\* s[i .. i+n-1] are n digits
DigitsAt(s, i, n) == i + n - 1 <= Len(s) /\ \A m \in i..(i + n - 1) : IsDigit(s[m])

\* the text after \s*/\s* read from s[i] on, or None when no "/" is there
AfterSlash(s, i) ==
    LET a == LStrip(SubSeq(s, i, Len(s)))
    IN  IF a # << >> /\ Head(a) = "/" THEN <<"/">> \o LStrip(Tail(a)) ELSE None

\* season_label_to_year (lines 88-98); NULL stands for the ValueError
season_label_to_year(season_label) ==
    LET s  == Strip(season_label)
        r4 == IF DigitsAt(s, 1, 4) THEN AfterSlash(s, 5) ELSE None
        n1 == IF DigitsAt(s, 1, 2) /\ AfterSlash(s, 3) # None THEN 2
              ELSE IF DigitsAt(s, 1, 1) /\ AfterSlash(s, 2) # None THEN 1 ELSE 0
        r2 == IF n1 = 0 THEN None ELSE AfterSlash(s, n1 + 1)
        s2 == IF DigitsAt(r2, 2, 2) THEN StrToInt(SubSeq(r2, 2, 3))
              ELSE StrToInt(SubSeq(r2, 2, 2))
        four == { i \in 1..Len(s) : DigitsAt(s, i, 4) }
    IN  IF r4 # None /\ DigitsAt(r4, 2, 4) THEN StrToInt(SubSeq(r4, 2, 5))
        ELSE IF r2 # None /\ DigitsAt(r2, 2, 1)
             THEN (IF s2 <= 29 THEN 2000 + s2 ELSE 1900 + s2)
        ELSE IF four # {} THEN StrToInt(SubSeq(s, MinOf(four), MinOf(four) + 3))
        ELSE NULL

NoNumber == [int |-> None, frac |-> None]

\* re.findall(r'(\d+(?:[.,]\d+)?)', cell_text)[-1] (lines 108-110), read
\* from s[i] on; last is the match found so far
RECURSIVE LastNumber(_, _, _)
LastNumber(s, i, last) ==
    IF i > Len(s) THEN last
    ELSE IF ~IsDigit(s[i]) THEN LastNumber(s, i + 1, last)
    ELSE LET e == DigitRunEnd(s, i)
         IN  IF e + 2 <= Len(s) /\ s[e + 1] \in {".", ","} /\ IsDigit(s[e + 2])
             THEN LastNumber(s, DigitRunEnd(s, e + 2) + 1,
                             [int  |-> SubSeq(s, i, e),
                              frac |-> SubSeq(s, e + 2, DigitRunEnd(s, e + 2))])
             ELSE LastNumber(s, e + 1, [int |-> SubSeq(s, i, e), frac |-> << >>])

\* extract_year_points (lines 101-114)
extract_year_points(cell_text) == LastNumber(cell_text, 1, NoNumber)

\* extract_teams (lines 116-125): the first integer of the text, or NULL
extract_teams(cell_text) ==
    IF DigitRuns(cell_text) = {} THEN NULL
    ELSE StrToInt(SubSeq(cell_text, MinOf(DigitRuns(cell_text)),
                         DigitRunEnd(cell_text, MinOf(DigitRuns(cell_text)))))

\* tds[i] of lines 174-180, i 0-based: the text of the cell, "" past the end
CellText(tds, i) == IF i < Len(tds) THEN norm_text(tds[i + 1]) ELSE EMPTY

\* lines 170-191: the rows of one table
RECURSIVE CountryRowsOf(_, _, _, _, _)
CountryRowsOf(trs_, idx_country, idx_ranking, last_label, page_year) ==
    IF trs_ = << >> THEN << >>
    ELSE LET tds == Head(trs_).tds
             lab_year == IF last_label # EMPTY THEN season_label_to_year(last_label)
                         ELSE NULL
         IN  (IF tds = << >> THEN << >>
              ELSE << [ season_year |-> IF lab_year # NULL THEN lab_year ELSE page_year,
                        country |-> CellText(tds, idx_country),
                        pos     |-> CellText(tds, 0),
                        value   |-> extract_year_points(CellText(tds, idx_ranking - 1)),
                        ranking |-> CellText(tds, idx_ranking),
                        teams   |-> extract_teams(CellText(tds, Len(tds) - 1)) ] >>)
             \o CountryRowsOf(Tail(trs_), idx_country, idx_ranking, last_label, page_year)

\* lines 155-169: the rows of a table whose header names a country column,
\* a ranking column and a seasonal column between them
CountryTableRows(table, page_year) ==
    LET labels == HeaderLabels(table.header)
        exact  == FirstIndex(labels, LAMBDA lab : StrLower(Strip(lab)) = COUNTRY)
        idx_country == IF exact # NULL THEN exact
                       ELSE FirstIndex(labels, LAMBDA lab : Contains(StrLower(lab), COUNTRY))
        idx_ranking == FirstIndex(labels, LAMBDA lab : StrLower(Strip(lab)) \in {RANKING, RANK})
    IN  IF labels = << >> THEN << >>
        ELSE IF idx_country = NULL \/ idx_ranking = NULL THEN << >>
        ELSE IF idx_country + 1 >= idx_ranking THEN << >>
        ELSE CountryRowsOf(iter_country_rows(table), idx_country, idx_ranking,
                           labels[idx_ranking], page_year)

\* parse_html_to_rows of KESCountryData (lines 148-193)
RECURSIVE country_parse_html_to_rows(_, _)
country_parse_html_to_rows(page, page_year) ==
    IF page = << >> THEN << >>
    ELSE CountryTableRows(Head(page), page_year)
         \o country_parse_html_to_rows(Tail(page), page_year)

\* f"{value:.6f}".rstrip("0").rstrip(".") (line 205)
RECURSIVE RStripZeros(_)
RStripZeros(s) ==
    IF s # << >> /\ s[Len(s)] = "0" THEN RStripZeros(SubSeq(s, 1, Len(s) - 1)) ELSE s

FormatValue(v) ==
    IF v = NoNumber THEN EMPTY
    ELSE IF RStripZeros(v.frac) = << >> THEN IntToStr(StrToInt(v.int))
    ELSE IntToStr(StrToInt(v.int)) \o <<".">> \o RStripZeros(v.frac)

\* save_per_year_csv of KESCountryData (lines 195-208)
country_save_per_year_csv(rows) ==
    [ i \in 1..Len(rows) |->
        [ season_year |-> IntToStr(rows[i].season_year),
          country |-> rows[i].country,
          pos     |-> rows[i].pos,
          value   |-> FormatValue(rows[i].value),
          ranking |-> rows[i].ranking,
          teams   |-> IF rows[i].teams = NULL THEN EMPTY ELSE IntToStr(rows[i].teams) ] ]

\* lines 211-233
CountryStart ==
    /\ pc = "country_start"
    /\ to_fetch' = kes_to_fetch(years, overwrite, files)
    /\ pc' = "country_loop"
    /\ UNCHANGED <<site, files, years, overwrite, y, tables, trs, current_cup,
                   current_stage, year_rows, df, dim_cups, cup_map, dim_stages,
                   stage_map_norm, dim_clubs, club_map, fact, err, cup_trace,
                   responses, requests, uefaVars>>

\* lines 236-249: one year of the loop
CountryYear ==
    /\ pc = "country_loop" /\ to_fetch # << >>
    /\ y' = Head(to_fetch)
    /\ to_fetch' = Tail(to_fetch)
    /\ requests' = requests \o [i \in 1..FetchYear(Head(to_fetch)).sent |-> Head(to_fetch)]
    /\ files' = IF FetchSucceeds(Head(to_fetch))
                THEN (Head(to_fetch) :>
                        country_save_per_year_csv(
                            country_parse_html_to_rows(site[Head(to_fetch)], Head(to_fetch))))
                     @@ files
                ELSE files
    /\ UNCHANGED <<site, years, overwrite, pc, tables, trs, current_cup,
                   current_stage, year_rows, df, dim_cups, cup_map, dim_stages,
                   stage_map_norm, dim_clubs, club_map, fact, err, cup_trace,
                   responses, uefaVars>>

\* pd.to_numeric(column, errors='coerce') followed by astype('Int64')
\* (lines 271, 277): the integer, or NULL
ToInt64(s) == IF IsDigits(s) THEN StrToInt(s) ELSE NULL

\* pd.to_numeric(column, errors='coerce') (lines 273, 275) on the texts
\* the pages hold: the number, kept as it is written, or None
ToNumeric(s) ==
    IF IsDigits(s) THEN s
    ELSE IF \E k \in 2..(Len(s) - 1) :
                /\ s[k] = "."
                /\ IsDigits(SubSeq(s, 1, k - 1)) /\ IsDigits(SubSeq(s, k + 1, Len(s)))
         THEN s
    ELSE None

\* lines 264-287
CountryFinalRow(r) ==
    [ Season |-> ToInt64(r.season_year), CountryName |-> r.country,
      Position |-> r.pos, YearPoints |-> ToNumeric(r.value),
      RankingPoints |-> ToNumeric(r.ranking), Teams |-> ToInt64(r.teams) ]

\* lines 252-261: the rows of all per-year files, in the order of the years
RECURSIVE CountryMergedRows(_, _)
CountryMergedRows(ys, disk) ==
    IF ys = << >> THEN << >>
    ELSE [i \in 1..Len(disk[Head(ys)]) |-> CountryFinalRow(disk[Head(ys)][i])]
         \o CountryMergedRows(Tail(ys), disk)

\* lines 251-307: the merged parquet file; a missing parquet engine ends
\* the run
CountryMerge ==
    /\ pc = "country_loop" /\ to_fetch = << >>
    /\ df' = CountryMergedRows(SortedYears(DOMAIN files), files)
    /\ \E engine \in BOOLEAN : err' = IF engine THEN "none" ELSE "SystemExit"
    /\ pc' = "country_done"
    /\ UNCHANGED <<site, files, years, overwrite, to_fetch, y, tables, trs,
                   current_cup, current_stage, year_rows, dim_cups, cup_map,
                   dim_stages, stage_map_norm, dim_clubs, club_map, fact,
                   cup_trace, responses, requests, uefaVars>>

NextCountry ==
    \/ CountryStart
    \/ CountryYear
    \/ CountryMerge

-----------------------------------------------------------------------------
(* SpecRefresh: one run of the main of KESMatchData, KESClubData or        *)
(* KESCountryData over a range of up to MaxYears years, with any set of    *)
(* per-year files left by earlier runs and any answer of the site          *)

NETHERLANDS == <<"N","e","t","h","e","r","l","a","n","d","s">>
GERMANY     == <<"G","e","r","m","a","n","y">>

ClubCells(pos, club, cup, points) ==
    << pos, club, cup, <<"3">>, <<"3">>, <<"0">>, <<"1">>, <<"1">>, <<"0">>, <<"2">>, points >>

\* a table with a header of four columns, a country line and club lines,
\* and a table without header whose rows have the default columns
ClubTableHeaded ==
    [ header |-> << [colspan |-> 2, txt |-> <<"C","l","u","b">>],
                    [colspan |-> 1, txt |-> <<"C","u","p">>],
                    [colspan |-> 1, txt |-> <<"q","W">>],
                    [colspan |-> 1, txt |-> <<"P","o","i","n","t","s">>] >>,
      countryline |-> [ present |-> TRUE, bold |-> NETHERLANDS,
                        text |-> <<"N","e","t","h","e","r","l","a","n","d","s"," ","1","2"," ","t","e","a","m","s">> ],
      rows |-> << [clubline |-> TRUE,
                   tds |-> << <<"1">>, <<"A","j","a","x">>, <<"C","L">>, <<"3">>, <<"7",".","5","0","0">> >>],
                  [clubline |-> FALSE,
                   tds |-> << EMPTY, <<"T","o","t","a","l">>, EMPTY, EMPTY, <<"9",".","0","0","0">> >>],
                  [clubline |-> TRUE,
                   tds |-> << <<"2">>, <<"nbsp","P","S","V">>, <<"E","C">>, <<"1">>, <<"3",".","0","0","0">> >>] >> ]

ClubTableBare ==
    [ header |-> << >>,
      countryline |-> [present |-> FALSE, bold |-> EMPTY, text |-> EMPTY],
      rows |-> << [clubline |-> FALSE,
                   tds |-> ClubCells(<<"1">>, <<"A","j","a","x">>, <<"C","L">>, <<"7",".","5","0","0">>)],
                  [clubline |-> FALSE,
                   tds |-> ClubCells(EMPTY, <<"T","o","t","a","l">>, EMPTY, <<"9",".","0","0","0">>)],
                  [clubline |-> FALSE, tds |-> << <<"2">>, <<"P","S","V">> >>] >> ]

ClubServers ==
    { [page |-> <<ClubTableHeaded>>, responses |-> <<"ok", "ok", "ok">>],
      [page |-> <<ClubTableBare, ClubTableHeaded>>,
       responses |-> <<"http_error", "exception", "ok">>],
      [page |-> <<ClubTableHeaded>>,
       responses |-> <<"exception", "http_error", "http_error">>],
      [page |-> << >>, responses |-> <<"exception", "ok", "ok">>] }

\* the file an earlier run of KESClubData wrote for the year
OldClubFile(yr) ==
    club_save_per_year_csv(
        << [ year |-> yr, country |-> GERMANY, teams_in_country |-> 1, Pos |-> <<"1">>,
             Club |-> BAYERN, Cup |-> <<"C","L">>, Points |-> <<"9",".","0","0","0">> ] >>)

\* a table whose header names the columns, with country lines and a club
\* line, a table whose header spans two columns and whose rows carry no
\* class, and a table without header
CountryTableHeaded ==
    [ header |-> << [colspan |-> 1, txt |-> <<"#">>],
                    [colspan |-> 1, txt |-> <<"C","o","u","n","t","r","y">>],
                    [colspan |-> 1, txt |-> <<"2","3","/","2","4">>],
                    [colspan |-> 1, txt |-> <<"2","4","/","2","5">>],
                    [colspan |-> 1, txt |-> <<"R","a","n","k","i","n","g">>],
                    [colspan |-> 1, txt |-> <<"T","e","a","m","s">>] >>,
      rows |-> << [cls |-> "countryline",
                   tds |-> << <<"1">>, GERMANY, <<"1","5",".","0","0","0">>,
                              <<"1","7",",","2","5","0">>, <<"6","1",".","5","0","0">>,
                              <<"5"," ","t","e","a","m","s">> >>],
                  [cls |-> "clubline",
                   tds |-> << <<"1">>, BAYERN, <<"9",".","0","0","0">> >>],
                  [cls |-> "countryline",
                   tds |-> << <<"2">>, NETHERLANDS, EMPTY, EMPTY >>] >> ]

CountryTableSpanned ==
    [ header |-> << [colspan |-> 2, txt |-> <<"c","o","u","n","t","r","y">>],
                    [colspan |-> 1, txt |-> <<"2","0","2","4","/","2","0","2","5">>],
                    [colspan |-> 1, txt |-> <<"r","a","n","k">>] >>,
      rows |-> << [cls |-> "none",
                   tds |-> << <<"1">>, NETHERLANDS,
                              <<"2","0","1","8","-","2","0","2","0"," ","7",".","5","0","0">>,
                              <<"3","0">> >>],
                  [cls |-> "none", tds |-> << <<"2">>, GERMANY >>] >> ]

CountryTableBare ==
    [ header |-> << >>,
      rows |-> << [cls |-> "countryline", tds |-> << <<"1">>, GERMANY, <<"3">> >>] >> ]

CountryServers ==
    { [page |-> <<CountryTableHeaded>>, responses |-> <<"ok", "ok", "ok">>],
      [page |-> <<CountryTableBare, CountryTableSpanned>>,
       responses |-> <<"http_error", "exception", "ok">>],
      [page |-> <<CountryTableHeaded>>,
       responses |-> <<"exception", "http_error", "http_error">>],
      [page |-> <<CountryTableBare>>, responses |-> <<"exception", "ok", "ok">>] }

\* the file an earlier run of KESCountryData wrote for the year
OldCountryFile(yr) ==
    country_save_per_year_csv(
        << [ season_year |-> yr, country |-> GERMANY, pos |-> <<"1">>,
             value |-> [int |-> <<"9">>, frac |-> <<"5","0","0">>],
             ranking |-> <<"4","0",".","0","0","0">>, teams |-> 7 ] >>)

\* the arguments of main, the per-year files and the site, for one script
InitKes(start, OldOf(_), KesServers) ==
    /\ \E lo \in YearPool : \E hi \in YearPool :
          lo <= hi /\ years = RangeOf(lo, hi)
    /\ overwrite \in BOOLEAN
    /\ \E present \in SUBSET YearPool : files = [yr \in present |-> OldOf(yr)]
    /\ \E srv \in [SupportedPool -> KesServers] :
          /\ site = [yr \in SupportedPool |-> srv[yr].page]
          /\ responses = [yr \in SupportedPool |-> srv[yr].responses]
    /\ requests = << >>
    /\ UefaIdle
    /\ pc = start /\ to_fetch = << >> /\ y = 0 /\ tables = << >> /\ trs = << >>
    /\ current_cup = EMPTY /\ current_stage = EMPTY /\ year_rows = << >>
    /\ NoFact
    /\ cup_trace = << >>

InitRefresh ==
    \/ InitRun
    \/ InitKes("club_start", OldClubFile, ClubServers)
    \/ InitKes("country_start", OldCountryFile, CountryServers)

NextRefresh ==
    \/ Next
    \/ NextClub
    \/ NextCountry

SpecRefresh == InitRefresh /\ [][NextRefresh]_vars

-----------------------------------------------------------------------------
(* C29 *)

\* the steps of the three mains: the choice of the years to fetch, and the
\* turn of the loop that takes the next of them
ChoosesYears ==
    /\ pc \in {"start", "club_start", "country_start"}
    /\ pc' \in {"loop", "club_loop", "country_loop"}

TakesYear ==
    /\ pc \in {"loop", "club_loop", "country_loop"}
    /\ to_fetch # << >> /\ to_fetch' = Tail(to_fetch)

Ascending(s) == \A i \in 1..Len(s) : \A j \in 1..Len(s) : i < j => s[i] < s[j]

SameFile(yr) ==
    /\ yr \in DOMAIN files' <=> yr \in DOMAIN files
    /\ yr \in DOMAIN files => files'[yr] = files[yr]

-----------------------------------------------------------------------------
(* C30 *)

\* the turn of the loop of KESMatchData.main whose fetch fails
FetchFails ==
    /\ pc = "loop" /\ to_fetch # << >> /\ to_fetch' = Tail(to_fetch)
    /\ ~FetchSucceeds(Head(to_fetch))

\* the turn of the loop of KESMatchData.main that takes a year
FetchesYear == pc = "loop" /\ to_fetch # << >> /\ to_fetch' = Tail(to_fetch)

\* the first request for the year that is answered with r.ok, or 0
FirstOk(yr) ==
    IF \E a \in 1..RETRIES : responses[yr][a] = "ok"
    THEN MinOf({ a \in 1..RETRIES : responses[yr][a] = "ok" })
    ELSE 0

\* the fetch of some year failed in this run after requests were sent
SomeFetchFailed == \E yr \in Range(requests) : ~FetchSucceeds(yr)

\* the part of C30 about the loop and about fetch_html: a failed fetch
\* leaves every per-year file as it is and the loop goes on with the
\* remaining years; fetch_html sends the requests up to the first one that
\* is answered with r.ok and returns the page, or sends `retries` requests
\* and raises; no request is sent for a year url_for_year rejects
C30_LoopGoesOn ==
    [][ /\ FetchFails => files' = files /\ pc' = "loop"
        /\ FetchesYear =>
              LET yr   == Head(to_fetch)
                  sent == Len(requests') - Len(requests)
              IN  IF ~SupportedYear(yr) THEN sent = 0 /\ ~FetchSucceeds(yr)
                  ELSE /\ sent <= RETRIES
                       /\ FetchSucceeds(yr) <=> FirstOk(yr) # 0
                       /\ FetchSucceeds(yr) => sent = FirstOk(yr)
                       /\ ~FetchSucceeds(yr) => sent = RETRIES
      ]_vars

\* C30 as claimed: a failed fetch leaves the per-year files as they are, the
\* loop goes on, and the dimensions and the fact table are still built from
\* the per-year files on disk: the run does not end in an error before they
\* are built
C30_AsClaimed ==
    /\ [](SomeFetchFailed => pc # "failed")
    /\ C30_LoopGoesOn

\* the run fetched the newest year alone, every request failed, no per-year
\* file is on disk, and the dimension builder raised
C30_OfflineFirstRun ==
    /\ pc = "failed" /\ err = "KeyError"
    /\ years = RangeOf(LAST_YEAR, LAST_YEAR) /\ files = << >>
    /\ Len(requests) = RETRIES /\ Range(requests) = {LAST_YEAR}

=============================================================================
